---- MODULE Spec2Model ----
(***************************************************************************)
(* Model of the an_ok_bstree crate: an unbalanced binary search tree map   *)
(* with two engines, the recursive one (src/bstree_recursion) and the      *)
(* explicit-stack one (src/bstree_no_recursion).  Both engines are driven  *)
(* side by side by the same sequence of public calls.                      *)
(*                                                                         *)
(* Link<K,V> = Option<Box<Node<K,V>>> is a sequence of length 0 (None) or  *)
(* 1 (Some(node)); a Node is a record [key, value, left, right].           *)
(* A `&mut` cursor into a tree is the path (sequence of "L"/"R") from the  *)
(* owner of the tree to the node the cursor points at.                     *)
(***************************************************************************)
EXTENDS Integers, Sequences, FiniteSets, TLC

\* ---------------------------------------------------------------- bounds
MaxKey == 5
MaxVal == 2

Keys == 1..MaxKey
Values == 1..MaxVal
\* query keys: every key that can be stored, one below and one above
QueryKeys == 0..(MaxKey + 1)

\* ------------------------------------------------ Option / Link / Node
None == <<>>
Some(x) == <<x>>
Unwrap(l) == l[1]

Node_new(key, value) ==
    [key |-> key, value |-> value, left |-> None, right |-> None]

\* ---------------------------------------------------------------------
\* Recursive engine: src/src/bstree_recursion/node.rs
\* ---------------------------------------------------------------------
\* Node::insert with the first comparison turned around: a smaller key is
\* sent to the right subtree
RECURSIVE Mut_RecNode_insert(_, _, _)
Mut_RecNode_insert(self, key, value) ==
    IF self.key > key
    THEN IF self.right = None
         THEN [self EXCEPT !.right = Some(Node_new(key, value))]
         ELSE [self EXCEPT !.right =
                   Some(Mut_RecNode_insert(Unwrap(self.right), key, value))]
    ELSE IF self.key < key
    THEN IF self.right = None
         THEN [self EXCEPT !.right = Some(Node_new(key, value))]
         ELSE [self EXCEPT !.right =
                   Some(Mut_RecNode_insert(Unwrap(self.right), key, value))]
    ELSE [self EXCEPT !.value = value]

\* Node::insert storing the new node in the left link without looking at
\* what the link holds
RECURSIVE Mut_RecNode_insert_left(_, _, _)
Mut_RecNode_insert_left(self, key, value) ==
    IF self.key > key
    THEN [self EXCEPT !.left = Some(Node_new(key, value))]
    ELSE IF self.key < key
    THEN IF self.right = None
         THEN [self EXCEPT !.right = Some(Node_new(key, value))]
         ELSE [self EXCEPT !.right =
                   Some(Mut_RecNode_insert_left(Unwrap(self.right), key, value))]
    ELSE [self EXCEPT !.value = value]

RECURSIVE RecNode_insert(_, _, _)
RecNode_insert(self, key, value) ==
    IF self.key > key
    THEN IF self.left = None
         THEN [self EXCEPT !.left = Some(Node_new(key, value))]
         ELSE [self EXCEPT !.left =
                   Some(RecNode_insert(Unwrap(self.left), key, value))]
    ELSE IF self.key < key
    THEN IF self.right = None
         THEN [self EXCEPT !.right = Some(Node_new(key, value))]
         ELSE [self EXCEPT !.right =
                   Some(RecNode_insert(Unwrap(self.right), key, value))]
    ELSE [self EXCEPT !.value = value]

RECURSIVE RecNode_search_pair(_, _)
RecNode_search_pair(self, key) ==
    IF self.key < key
    THEN IF self.right = None THEN None
         ELSE RecNode_search_pair(Unwrap(self.right), key)
    ELSE IF self.key > key
    THEN IF self.left = None THEN None
         ELSE RecNode_search_pair(Unwrap(self.left), key)
    ELSE Some(<<self.key, self.value>>)

RecNode_search(self, key) ==
    LET p == RecNode_search_pair(self, key)
    IN  IF p = None THEN None ELSE Some(Unwrap(p)[2])

RECURSIVE RecNode_min_pair(_)
RecNode_min_pair(self) ==
    IF self.left # None
    THEN RecNode_min_pair(Unwrap(self.left))
    ELSE <<self.key, self.value>>

RECURSIVE RecNode_max_pair(_)
RecNode_max_pair(self) ==
    IF self.right # None
    THEN RecNode_max_pair(Unwrap(self.right))
    ELSE <<self.key, self.value>>

RECURSIVE RecNode_successor(_, _)
RecNode_successor(self, key) ==
    IF self.key > key
    THEN IF self.left = None
         THEN Some(<<self.key, self.value>>)
         ELSE LET s == RecNode_successor(Unwrap(self.left), key)
              IN  IF s # None THEN s ELSE Some(<<self.key, self.value>>)
    ELSE IF self.key < key
    THEN IF self.right = None THEN None
         ELSE RecNode_successor(Unwrap(self.right), key)
    ELSE IF self.right = None THEN None
         ELSE Some(RecNode_min_pair(Unwrap(self.right)))

\* predecessor that answers with the first smaller node it meets instead of
\* looking for a closer one in that node's right subtree
RECURSIVE Mut_RecNode_predecessor(_, _)
Mut_RecNode_predecessor(self, key) ==
    IF self.key < key
    THEN Some(<<self.key, self.value>>)
    ELSE IF self.key > key
    THEN IF self.left = None THEN None
         ELSE Mut_RecNode_predecessor(Unwrap(self.left), key)
    ELSE IF self.left = None THEN None
         ELSE Some(RecNode_max_pair(Unwrap(self.left)))

RECURSIVE RecNode_predecessor(_, _)
RecNode_predecessor(self, key) ==
    IF self.key < key
    THEN IF self.right = None
         THEN Some(<<self.key, self.value>>)
         ELSE LET s == RecNode_predecessor(Unwrap(self.right), key)
              IN  IF s # None THEN s ELSE Some(<<self.key, self.value>>)
    ELSE IF self.key > key
    THEN IF self.left = None THEN None
         ELSE RecNode_predecessor(Unwrap(self.left), key)
    ELSE IF self.left = None THEN None
         ELSE Some(RecNode_max_pair(Unwrap(self.left)))

\* remove_min returns the pair <<remaining tree, minimum node>>
RECURSIVE RecNode_remove_min(_)
RecNode_remove_min(self) ==
    IF self.left # None
    THEN LET r == RecNode_remove_min(Unwrap(self.left))
         IN  <<Some([self EXCEPT !.left = r[1]]), r[2]>>
    ELSE <<self.right, [self EXCEPT !.right = None]>>

\* combine_two_subtrees that never attaches what remove_min left over
Mut_RecNode_combine_two_subtrees(left, right) ==
    LET r == RecNode_remove_min(right)
        min == r[2]
    IN  [min EXCEPT !.left = Some(left)]

RecNode_combine_two_subtrees(left, right) ==
    LET r == RecNode_remove_min(right)
        remain_tree == r[1]
        min == r[2]
    IN  [min EXCEPT !.right = remain_tree, !.left = Some(left)]

\* delete_root that keeps a node without children in place
Mut_RecNode_delete_root(self) ==
    IF self.left = None /\ self.right = None THEN Some(self)
    ELSE IF self.right = None THEN self.left
    ELSE IF self.left = None THEN self.right
    ELSE Some(RecNode_combine_two_subtrees(Unwrap(self.left),
                                           Unwrap(self.right)))

RecNode_delete_root(self) ==
    IF self.left = None /\ self.right = None THEN None
    ELSE IF self.right = None THEN self.left
    ELSE IF self.left = None THEN self.right
    ELSE Some(RecNode_combine_two_subtrees(Unwrap(self.left),
                                           Unwrap(self.right)))

\* Node::delete that deletes the node the walk stops at when the child to
\* continue in is missing
RECURSIVE Mut_RecNode_delete(_, _)
Mut_RecNode_delete(self, key) ==
    IF self.key < key /\ self.right # None
    THEN Some([self EXCEPT !.right =
                   Mut_RecNode_delete(Unwrap(self.right), key)])
    ELSE IF self.key > key /\ self.left # None
    THEN Some([self EXCEPT !.left =
                   Mut_RecNode_delete(Unwrap(self.left), key)])
    ELSE RecNode_delete_root(self)

RECURSIVE RecNode_delete(_, _)
RecNode_delete(self, key) ==
    IF self.key < key
    THEN IF self.right # None
         THEN Some([self EXCEPT !.right =
                        RecNode_delete(Unwrap(self.right), key)])
         ELSE Some(self)
    ELSE IF self.key > key
    THEN IF self.left # None
         THEN Some([self EXCEPT !.left =
                        RecNode_delete(Unwrap(self.left), key)])
         ELSE Some(self)
    ELSE RecNode_delete_root(self)

RECURSIVE RecNode_delete_tree(_, _)
RecNode_delete_tree(self, key) ==
    IF self.key < key
    THEN IF self.right # None
         THEN IF Unwrap(self.right).key = key
              THEN [self EXCEPT !.right = None]
              ELSE [self EXCEPT !.right =
                        Some(RecNode_delete_tree(Unwrap(self.right), key))]
         ELSE self
    ELSE IF self.key > key
    THEN IF self.left # None
         THEN IF Unwrap(self.left).key = key
              THEN [self EXCEPT !.left = None]
              ELSE [self EXCEPT !.left =
                        Some(RecNode_delete_tree(Unwrap(self.left), key))]
         ELSE self
    ELSE self

\* remove_tree returns the pair <<self after the call, returned Link>>
\* Node::remove_tree whose left arm takes the left child without comparing
\* its key
RECURSIVE Mut_RecNode_remove_tree(_, _)
Mut_RecNode_remove_tree(self, key) ==
    IF self.key < key
    THEN IF self.right # None
         THEN IF Unwrap(self.right).key = key
              THEN <<[self EXCEPT !.right = None], self.right>>
              ELSE LET r == Mut_RecNode_remove_tree(Unwrap(self.right), key)
                   IN  <<[self EXCEPT !.right = Some(r[1])], r[2]>>
         ELSE <<self, None>>
    ELSE IF self.key > key
    THEN IF self.left # None
         THEN <<[self EXCEPT !.left = None], self.left>>
         ELSE <<self, None>>
    ELSE <<self, None>>

RECURSIVE RecNode_remove_tree(_, _)
RecNode_remove_tree(self, key) ==
    IF self.key < key
    THEN IF self.right # None
         THEN IF Unwrap(self.right).key = key
              THEN <<[self EXCEPT !.right = None], self.right>>
              ELSE LET r == RecNode_remove_tree(Unwrap(self.right), key)
                   IN  <<[self EXCEPT !.right = Some(r[1])], r[2]>>
         ELSE <<self, None>>
    ELSE IF self.key > key
    THEN IF self.left # None
         THEN IF Unwrap(self.left).key = key
              THEN <<[self EXCEPT !.left = None], self.left>>
              ELSE LET r == RecNode_remove_tree(Unwrap(self.left), key)
                   IN  <<[self EXCEPT !.left = Some(r[1])], r[2]>>
         ELSE <<self, None>>
    ELSE <<self, None>>

RECURSIVE RecNode_prev_order(_)
RecNode_prev_order(root) ==
    IF root = None THEN <<>>
    ELSE LET node == Unwrap(root)
         IN  <<node.key>> \o RecNode_prev_order(node.left)
                          \o RecNode_prev_order(node.right)

\* Node::in_order pushing the key before it walks the left subtree
RECURSIVE Mut_RecNode_in_order(_)
Mut_RecNode_in_order(root) ==
    IF root = None THEN <<>>
    ELSE LET node == Unwrap(root)
         IN  <<node.key>> \o Mut_RecNode_in_order(node.left)
                          \o Mut_RecNode_in_order(node.right)

RECURSIVE RecNode_in_order(_)
RecNode_in_order(root) ==
    IF root = None THEN <<>>
    ELSE LET node == Unwrap(root)
         IN  RecNode_in_order(node.left) \o <<node.key>>
                                         \o RecNode_in_order(node.right)

RECURSIVE RecNode_post_order(_)
RecNode_post_order(root) ==
    IF root = None THEN <<>>
    ELSE LET node == Unwrap(root)
         IN  RecNode_post_order(node.left) \o RecNode_post_order(node.right)
                                           \o <<node.key>>

\* the while loop of level_order: queue is the VecDeque, buf the output
\* level_order that takes the newest pending node (pop_back)
RECURSIVE Mut_RecNode_level_order_loop(_, _)
Mut_RecNode_level_order_loop(queue, buf) ==
    IF queue = <<>> THEN buf
    ELSE LET node == queue[Len(queue)]
             q1 == SubSeq(queue, 1, Len(queue) - 1)
             q2 == IF node.left # None
                   THEN Append(q1, Unwrap(node.left)) ELSE q1
             q3 == IF node.right # None
                   THEN Append(q2, Unwrap(node.right)) ELSE q2
         IN  Mut_RecNode_level_order_loop(q3, Append(buf, node.key))

RECURSIVE RecNode_level_order_loop(_, _)
RecNode_level_order_loop(queue, buf) ==
    IF queue = <<>> THEN buf
    ELSE LET node == Head(queue)
             q1 == Tail(queue)
             q2 == IF node.left # None
                   THEN Append(q1, Unwrap(node.left)) ELSE q1
             q3 == IF node.right # None
                   THEN Append(q2, Unwrap(node.right)) ELSE q2
         IN  RecNode_level_order_loop(q3, Append(buf, node.key))

RecNode_level_order(root) ==
    RecNode_level_order_loop(IF root # None THEN <<Unwrap(root)>> ELSE <<>>,
                             <<>>)

\* ---------------------------------------------------------------------
\* Recursive engine: src/src/bstree_recursion/bstree.rs
\* A BSTree is its root Link.
\* ---------------------------------------------------------------------
BSTree_new == None

BSTree_is_empty(root) == root = None

RecBSTree_insert(root, key, value) ==
    IF root = None
    THEN Some(Node_new(key, value))
    ELSE Some(RecNode_insert(Unwrap(root), key, value))

RecBSTree_delete(root, key) ==
    IF root # None THEN RecNode_delete(Unwrap(root), key) ELSE root

RecBSTree_get_pair(root, key) ==
    IF root = None THEN None ELSE RecNode_search_pair(Unwrap(root), key)

RecBSTree_get(root, key) ==
    IF root = None THEN None ELSE RecNode_search(Unwrap(root), key)

RecBSTree_get_or(root, key, default) ==
    LET g == RecBSTree_get(root, key)
    IN  IF g = None THEN default ELSE Unwrap(g)

RecBSTree_contains(root, key) == RecBSTree_get(root, key) # None

RecBSTree_max_pair(root) ==
    IF root = None THEN None ELSE Some(RecNode_max_pair(Unwrap(root)))

RecBSTree_min_pair(root) ==
    IF root = None THEN None ELSE Some(RecNode_min_pair(Unwrap(root)))

RecBSTree_successor(root, key) ==
    IF root = None THEN None ELSE RecNode_successor(Unwrap(root), key)

RecBSTree_predecessor(root, key) ==
    IF root = None THEN None ELSE RecNode_predecessor(Unwrap(root), key)

\* BSTree::delete_tree without the arm for the root key
Mut_RecBSTree_delete_tree(root, key) ==
    IF root = None THEN root
    ELSE Some(RecNode_delete_tree(Unwrap(root), key))

RecBSTree_delete_tree(root, key) ==
    IF root = None THEN root
    ELSE IF Unwrap(root).key = key THEN None
    ELSE Some(RecNode_delete_tree(Unwrap(root), key))

\* remove_tree returns the pair <<source tree after the call, returned tree>>
RecBSTree_remove_tree(root, key) ==
    IF root = None THEN <<root, None>>
    ELSE IF Unwrap(root).key = key THEN <<None, root>>
    ELSE LET r == RecNode_remove_tree(Unwrap(root), key)
         IN  <<Some(r[1]), r[2]>>

\* the re-lookup loop shared by the four *_iter methods: every key of the
\* traversal is resolved by get_pair; a key that is not found is skipped
RECURSIVE RecBSTree_collect(_, _)
RecBSTree_collect(root, keys) ==
    IF keys = <<>> THEN <<>>
    ELSE LET p == RecBSTree_get_pair(root, Head(keys))
         IN  (IF p # None THEN <<Unwrap(p)>> ELSE <<>>)
                 \o RecBSTree_collect(root, Tail(keys))

RecBSTree_preorder_iter(root) ==
    RecBSTree_collect(root, RecNode_prev_order(root))

RecBSTree_inorder_iter(root) ==
    RecBSTree_collect(root, RecNode_in_order(root))

RecBSTree_postorder_iter(root) ==
    RecBSTree_collect(root, RecNode_post_order(root))

RecBSTree_levelorder_iter(root) ==
    RecBSTree_collect(root, RecNode_level_order(root))

\* ---------------------------------------------------------------------
\* Explicit-stack engine: src/src/bstree_no_recursion/node.rs
\* ---------------------------------------------------------------------
\* the node a `&mut` / `&` cursor refers to: follow path from the owner
RECURSIVE NodeAt(_, _)
NodeAt(link, path) ==
    IF path = <<>> THEN Unwrap(link)
    ELSE IF Head(path) = "L"
    THEN NodeAt(Unwrap(link).left, Tail(path))
    ELSE NodeAt(Unwrap(link).right, Tail(path))

\* a write through a `&mut` cursor: the node at path becomes node
RECURSIVE WriteAt(_, _, _)
WriteAt(link, path, node) ==
    IF path = <<>> THEN Some(node)
    ELSE LET n == Unwrap(link)
         IN  IF Head(path) = "L"
             THEN Some([n EXCEPT !.left = WriteAt(n.left, Tail(path), node)])
             ELSE Some([n EXCEPT !.right = WriteAt(n.right, Tail(path), node)])

\* remove_min that detaches the minimum without moving the minimum's right
\* child into its place
RECURSIVE Mut_IterNode_remove_min_loop(_, _)
Mut_IterNode_remove_min_loop(self, current) ==
    LET cur == NodeAt(Some(self), current)
    IN  IF cur.left # None
        THEN LET left == Unwrap(cur.left)
             IN  IF left.left = None
                 THEN <<WriteAt(Some(self), current,
                                [cur EXCEPT !.left = None]),
                        [left EXCEPT !.right = None]>>
                 ELSE Mut_IterNode_remove_min_loop(self, Append(current, "L"))
        ELSE <<self.right, [self EXCEPT !.right = None]>>

\* the while-let loop of remove_min; current is the cursor into self
RECURSIVE IterNode_remove_min_loop(_, _)
IterNode_remove_min_loop(self, current) ==
    LET cur == NodeAt(Some(self), current)
    IN  IF cur.left # None
        THEN LET left == Unwrap(cur.left)
             IN  IF left.left = None
                 THEN <<WriteAt(Some(self), current,
                                [cur EXCEPT !.left = left.right]),
                        [left EXCEPT !.right = None]>>
                 ELSE IterNode_remove_min_loop(self, Append(current, "L"))
        ELSE <<self.right, [self EXCEPT !.right = None]>>

IterNode_remove_min(self) == IterNode_remove_min_loop(self, <<>>)

\* the mirror image of remove_min: <<remaining tree, maximum node>>
RECURSIVE Mut_IterNode_remove_max(_)
Mut_IterNode_remove_max(self) ==
    IF self.right # None
    THEN LET r == Mut_IterNode_remove_max(Unwrap(self.right))
         IN  <<Some([self EXCEPT !.right = r[1]]), r[2]>>
    ELSE <<self.left, [self EXCEPT !.left = None]>>

\* combine_two_subtrees promoting the maximum of the left subtree instead
\* of the minimum of the right subtree
Mut_IterNode_combine_two_subtrees(left, right) ==
    LET r == Mut_IterNode_remove_max(left)
        remain_tree == r[1]
        max == r[2]
    IN  [max EXCEPT !.left = remain_tree, !.right = Some(right)]

IterNode_combine_two_subtrees(left, right) ==
    LET r == IterNode_remove_min(right)
        remain_tree == r[1]
        min == r[2]
    IN  [min EXCEPT !.right = remain_tree, !.left = Some(left)]

IterNode_delete_root(self) ==
    IF self.left = None /\ self.right = None THEN None
    ELSE IF self.right = None THEN self.left
    ELSE IF self.left = None THEN self.right
    ELSE Some(IterNode_combine_two_subtrees(Unwrap(self.left),
                                            Unwrap(self.right)))

\* impl PartialEq for Node: nodes are equal when their keys are equal;
\* lifted to Option<&Box<Node>> as the standard library does
\* node equality by value instead of by key
Mut_Node_eq(a, b) == a.value = b.value

Node_eq(a, b) == a.key = b.key

OptNode_eq(a, b) ==
    \/ a = None /\ b = None
    \/ a # None /\ b # None /\ Node_eq(Unwrap(a), Unwrap(b))

\* ---------------------------------------------------------------------
\* Explicit-stack engine: src/src/bstree_no_recursion/bstree.rs
\* Each while loop is a recursive operator over the loop's variables.
\* ---------------------------------------------------------------------
\* insert without the equal-key arm: a key that is not smaller goes right
RECURSIVE Mut_IterBSTree_insert_loop(_, _, _, _)
Mut_IterBSTree_insert_loop(root, current, key, value) ==
    LET cur == NodeAt(root, current)
    IN  IF key < cur.key
        THEN IF cur.left = None
             THEN WriteAt(root, current,
                          [cur EXCEPT !.left = Some(Node_new(key, value))])
             ELSE Mut_IterBSTree_insert_loop(root, Append(current, "L"),
                                             key, value)
        ELSE IF cur.right = None
             THEN WriteAt(root, current,
                          [cur EXCEPT !.right = Some(Node_new(key, value))])
             ELSE Mut_IterBSTree_insert_loop(root, Append(current, "R"),
                                             key, value)

RECURSIVE IterBSTree_insert_loop(_, _, _, _)
IterBSTree_insert_loop(root, current, key, value) ==
    LET cur == NodeAt(root, current)
    IN  IF key < cur.key
        THEN IF cur.left = None
             THEN WriteAt(root, current,
                          [cur EXCEPT !.left = Some(Node_new(key, value))])
             ELSE IterBSTree_insert_loop(root, Append(current, "L"),
                                         key, value)
        ELSE IF key > cur.key
        THEN IF cur.right = None
             THEN WriteAt(root, current,
                          [cur EXCEPT !.right = Some(Node_new(key, value))])
             ELSE IterBSTree_insert_loop(root, Append(current, "R"),
                                         key, value)
        ELSE WriteAt(root, current, [cur EXCEPT !.value = value])

IterBSTree_insert(root, key, value) ==
    IF root = None
    THEN Some(Node_new(key, value))
    ELSE IterBSTree_insert_loop(root, <<>>, key, value)

RECURSIVE IterBSTree_delete_loop(_, _, _)
IterBSTree_delete_loop(root, current, key) ==
    LET cur == NodeAt(root, current)
    IN  IF key < cur.key
        THEN IF cur.left # None
             THEN LET left == Unwrap(cur.left)
                  IN  IF left.key = key
                      THEN WriteAt(root, current,
                               [cur EXCEPT !.left = IterNode_delete_root(left)])
                      ELSE IterBSTree_delete_loop(root, Append(current, "L"),
                                                  key)
             ELSE root
        ELSE IF key > cur.key
        THEN IF cur.right # None
             THEN LET right == Unwrap(cur.right)
                  IN  IF right.key = key
                      THEN WriteAt(root, current,
                               [cur EXCEPT !.right = IterNode_delete_root(right)])
                      ELSE IterBSTree_delete_loop(root, Append(current, "R"),
                                                  key)
             ELSE root
        ELSE root

IterBSTree_delete(root, key) ==
    IF root # None /\ Unwrap(root).key = key
    THEN IterNode_delete_root(Unwrap(root))
    ELSE IF root = None THEN root
    ELSE IterBSTree_delete_loop(root, <<>>, key)

\* read-only cursors (`Option<&Box<Node>>`) are the Link they refer to
\* get_pair that walks left for a greater key as well
RECURSIVE Mut_IterBSTree_get_pair_loop(_, _)
Mut_IterBSTree_get_pair_loop(current, key) ==
    IF current # None
    THEN LET node == Unwrap(current)
         IN  IF key < node.key
             THEN Mut_IterBSTree_get_pair_loop(node.left, key)
             ELSE IF key > node.key
             THEN Mut_IterBSTree_get_pair_loop(node.left, key)
             ELSE Some(<<node.key, node.value>>)
    ELSE None

RECURSIVE IterBSTree_get_pair_loop(_, _)
IterBSTree_get_pair_loop(current, key) ==
    IF current # None
    THEN LET node == Unwrap(current)
         IN  IF key < node.key
             THEN IterBSTree_get_pair_loop(node.left, key)
             ELSE IF key > node.key
             THEN IterBSTree_get_pair_loop(node.right, key)
             ELSE Some(<<node.key, node.value>>)
    ELSE None

IterBSTree_get_pair(root, key) == IterBSTree_get_pair_loop(root, key)

IterBSTree_get(root, key) ==
    LET p == IterBSTree_get_pair(root, key)
    IN  IF p = None THEN None ELSE Some(Unwrap(p)[2])

IterBSTree_get_or(root, key, default) ==
    LET g == IterBSTree_get(root, key)
    IN  IF g = None THEN default ELSE Unwrap(g)

IterBSTree_contains(root, key) == IterBSTree_get(root, key) # None

RECURSIVE IterBSTree_max_pair_loop(_)
IterBSTree_max_pair_loop(current) ==
    IF current # None
    THEN LET cur == Unwrap(current)
         IN  IF cur.right = None
             THEN Some(<<cur.key, cur.value>>)
             ELSE IterBSTree_max_pair_loop(cur.right)
    ELSE None

IterBSTree_max_pair(root) == IterBSTree_max_pair_loop(root)

\* min_pair with the stop test of max_pair: it stops at the first node that
\* has no right child
RECURSIVE Mut_IterBSTree_min_pair_loop(_)
Mut_IterBSTree_min_pair_loop(current) ==
    IF current # None
    THEN LET cur == Unwrap(current)
         IN  IF cur.right = None
             THEN Some(<<cur.key, cur.value>>)
             ELSE Mut_IterBSTree_min_pair_loop(cur.left)
    ELSE None

RECURSIVE IterBSTree_min_pair_loop(_)
IterBSTree_min_pair_loop(current) ==
    IF current # None
    THEN LET cur == Unwrap(current)
         IN  IF cur.left = None
             THEN Some(<<cur.key, cur.value>>)
             ELSE IterBSTree_min_pair_loop(cur.left)
    ELSE None

IterBSTree_min_pair(root) == IterBSTree_min_pair_loop(root)

\* successor whose comparison admits the queried key itself
RECURSIVE Mut_IterBSTree_successor_loop(_, _, _)
Mut_IterBSTree_successor_loop(current, successor, key) ==
    IF current # None
    THEN LET node == Unwrap(current)
         IN  IF node.key >= key
             THEN Mut_IterBSTree_successor_loop(node.left, current, key)
             ELSE Mut_IterBSTree_successor_loop(node.right, successor, key)
    ELSE IF successor = None THEN None
         ELSE Some(<<Unwrap(successor).key, Unwrap(successor).value>>)

RECURSIVE IterBSTree_successor_loop(_, _, _)
IterBSTree_successor_loop(current, successor, key) ==
    IF current # None
    THEN LET node == Unwrap(current)
         IN  IF node.key > key
             THEN IterBSTree_successor_loop(node.left, current, key)
             ELSE IterBSTree_successor_loop(node.right, successor, key)
    ELSE IF successor = None THEN None
         ELSE Some(<<Unwrap(successor).key, Unwrap(successor).value>>)

IterBSTree_successor(root, key) ==
    IterBSTree_successor_loop(root, None, key)

RECURSIVE IterBSTree_predecessor_loop(_, _, _)
IterBSTree_predecessor_loop(current, predecessor, key) ==
    IF current # None
    THEN LET node == Unwrap(current)
         IN  IF node.key < key
             THEN IterBSTree_predecessor_loop(node.right, current, key)
             ELSE IterBSTree_predecessor_loop(node.left, predecessor, key)
    ELSE IF predecessor = None THEN None
         ELSE Some(<<Unwrap(predecessor).key, Unwrap(predecessor).value>>)

IterBSTree_predecessor(root, key) ==
    IterBSTree_predecessor_loop(root, None, key)

RECURSIVE IterBSTree_delete_tree_loop(_, _, _)
IterBSTree_delete_tree_loop(root, current, key) ==
    LET cur == NodeAt(root, current)
    IN  IF key < cur.key
        THEN IF cur.left # None
             THEN IF Unwrap(cur.left).key = key
                  THEN WriteAt(root, current, [cur EXCEPT !.left = None])
                  ELSE IterBSTree_delete_tree_loop(root,
                                                   Append(current, "L"), key)
             ELSE root
        ELSE IF key > cur.key
        THEN IF cur.right # None
             THEN IF Unwrap(cur.right).key = key
                  THEN WriteAt(root, current, [cur EXCEPT !.right = None])
                  ELSE IterBSTree_delete_tree_loop(root,
                                                   Append(current, "R"), key)
             ELSE root
        ELSE root

IterBSTree_delete_tree(root, key) ==
    IF root # None /\ Unwrap(root).key = key THEN None
    ELSE IF root = None THEN root
    ELSE IterBSTree_delete_tree_loop(root, <<>>, key)

\* remove_tree returns the pair <<source tree after the call, returned tree>>
RECURSIVE IterBSTree_remove_tree_loop(_, _, _)
IterBSTree_remove_tree_loop(root, current, key) ==
    LET cur == NodeAt(root, current)
    IN  IF key < cur.key
        THEN IF cur.left # None
             THEN IF Unwrap(cur.left).key = key
                  THEN <<WriteAt(root, current, [cur EXCEPT !.left = None]),
                         cur.left>>
                  ELSE IterBSTree_remove_tree_loop(root,
                                                   Append(current, "L"), key)
             ELSE <<root, BSTree_new>>
        ELSE IF key > cur.key
        THEN IF cur.right # None
             THEN IF Unwrap(cur.right).key = key
                  THEN <<WriteAt(root, current, [cur EXCEPT !.right = None]),
                         cur.right>>
                  ELSE IterBSTree_remove_tree_loop(root,
                                                   Append(current, "R"), key)
             ELSE <<root, BSTree_new>>
        ELSE <<root, BSTree_new>>

\* remove_tree that hands over the whole tree when the key is not found
Mut_IterBSTree_remove_tree(root, key) ==
    IF root # None /\ Unwrap(root).key = key THEN <<None, root>>
    ELSE IF root = None THEN <<root, BSTree_new>>
    ELSE LET r == IterBSTree_remove_tree_loop(root, <<>>, key)
         IN  IF r[2] = None THEN <<None, r[1]>> ELSE r

IterBSTree_remove_tree(root, key) ==
    IF root # None /\ Unwrap(root).key = key THEN <<None, root>>
    ELSE IF root = None THEN <<root, BSTree_new>>
    ELSE IterBSTree_remove_tree_loop(root, <<>>, key)

\* top of the VecDeque used as a stack, and the stack after pop_back
Back(stack) == stack[Len(stack)]
PopBack(stack) == SubSeq(stack, 1, Len(stack) - 1)

\* outcome of unwrap() on None: the call panics and yields no traversal
Panic == <<-1>>

\* inner `while cur.is_some()` of prev_order: yields <<res, stack>>
RECURSIVE IterBSTree_prev_order_push(_, _, _)
IterBSTree_prev_order_push(cur, res, stack) ==
    IF cur # None
    THEN LET node == Unwrap(cur)
         IN  IterBSTree_prev_order_push(node.left, Append(res, node.key),
                                        Append(stack, node))
    ELSE <<res, stack>>

\* prev_order that takes the oldest pending node (pop_front) instead of the
\* newest one
RECURSIVE Mut_IterBSTree_prev_order_loop(_, _, _)
Mut_IterBSTree_prev_order_loop(cur, res, stack) ==
    IF cur # None \/ stack # <<>>
    THEN LET p == IterBSTree_prev_order_push(cur, res, stack)
             res1 == p[1]
             stack1 == p[2]
         IN  IF stack1 = <<>>
             THEN Mut_IterBSTree_prev_order_loop(None, res1, stack1)
             ELSE Mut_IterBSTree_prev_order_loop(Head(stack1).right, res1,
                                                 Tail(stack1))
    ELSE res

RECURSIVE IterBSTree_prev_order_loop(_, _, _)
IterBSTree_prev_order_loop(cur, res, stack) ==
    IF cur # None \/ stack # <<>>
    THEN LET p == IterBSTree_prev_order_push(cur, res, stack)
             res1 == p[1]
             stack1 == p[2]
         IN  IF stack1 = <<>>
             THEN IterBSTree_prev_order_loop(None, res1, stack1)
             ELSE IterBSTree_prev_order_loop(Back(stack1).right, res1,
                                             PopBack(stack1))
    ELSE res

IterBSTree_prev_order(root) == IterBSTree_prev_order_loop(root, <<>>, <<>>)

\* inner `while cur.is_some()` of in_order and post_order: yields stack
RECURSIVE IterBSTree_push_left(_, _)
IterBSTree_push_left(cur, stack) ==
    IF cur # None
    THEN LET node == Unwrap(cur)
         IN  IterBSTree_push_left(node.left, Append(stack, node))
    ELSE stack

RECURSIVE IterBSTree_in_order_loop(_, _, _)
IterBSTree_in_order_loop(cur, res, stack) ==
    IF cur # None \/ stack # <<>>
    THEN LET stack1 == IterBSTree_push_left(cur, stack)
         IN  IF stack1 = <<>>
             THEN IterBSTree_in_order_loop(None, res, stack1)
             ELSE IterBSTree_in_order_loop(Back(stack1).right,
                                           Append(res, Back(stack1).key),
                                           PopBack(stack1))
    ELSE res

IterBSTree_in_order(root) == IterBSTree_in_order_loop(root, <<>>, <<>>)

\* post_order whose loop body also runs while nothing has been emitted yet
RECURSIVE Mut_IterBSTree_post_order_loop(_, _, _, _)
Mut_IterBSTree_post_order_loop(cur, res, stack, prev) ==
    IF cur # None \/ stack # <<>> \/ res = <<>>
    THEN LET stack1 == IterBSTree_push_left(cur, stack)
         IN  IF stack1 = <<>> THEN Panic
             ELSE LET top == Back(stack1)
                  IN  IF top.right = None \/ OptNode_eq(top.right, prev)
                      THEN Mut_IterBSTree_post_order_loop(None,
                               Append(res, top.key), PopBack(stack1),
                               Some(top))
                      ELSE Mut_IterBSTree_post_order_loop(top.right, res,
                                                          stack1, prev)
    ELSE res

RECURSIVE IterBSTree_post_order_loop(_, _, _, _)
IterBSTree_post_order_loop(cur, res, stack, prev) ==
    IF cur # None \/ stack # <<>>
    THEN LET stack1 == IterBSTree_push_left(cur, stack)
         IN  IF stack1 = <<>> THEN Panic
             ELSE LET top == Back(stack1)
                  IN  IF top.right = None \/ OptNode_eq(top.right, prev)
                      THEN IterBSTree_post_order_loop(None,
                               Append(res, top.key), PopBack(stack1),
                               Some(top))
                      ELSE IterBSTree_post_order_loop(top.right, res,
                                                      stack1, prev)
    ELSE res

IterBSTree_post_order(root) ==
    IterBSTree_post_order_loop(root, <<>>, <<>>, None)

RECURSIVE IterBSTree_level_order_loop(_, _)
IterBSTree_level_order_loop(queue, res) ==
    IF queue # <<>>
    THEN LET node == Head(queue)
             q1 == Tail(queue)
             q2 == IF node.left # None
                   THEN Append(q1, Unwrap(node.left)) ELSE q1
             q3 == IF node.right # None
                   THEN Append(q2, Unwrap(node.right)) ELSE q2
         IN  IterBSTree_level_order_loop(q3, Append(res, node.key))
    ELSE res

IterBSTree_level_order(root) ==
    IterBSTree_level_order_loop(IF root # None THEN <<Unwrap(root)>>
                                               ELSE <<>>, <<>>)

\* the re-lookup loop resolving each key to the entry after it
RECURSIVE Mut_IterBSTree_collect(_, _)
Mut_IterBSTree_collect(root, keys) ==
    IF keys = <<>> THEN <<>>
    ELSE LET p == IterBSTree_successor(root, Head(keys))
         IN  (IF p # None THEN <<Unwrap(p)>> ELSE <<>>)
                 \o Mut_IterBSTree_collect(root, Tail(keys))

RECURSIVE IterBSTree_collect(_, _)
IterBSTree_collect(root, keys) ==
    IF keys = <<>> THEN <<>>
    ELSE LET p == IterBSTree_get_pair(root, Head(keys))
         IN  (IF p # None THEN <<Unwrap(p)>> ELSE <<>>)
                 \o IterBSTree_collect(root, Tail(keys))

IterBSTree_preorder_iter(root) ==
    IterBSTree_collect(root, IterBSTree_prev_order(root))

IterBSTree_inorder_iter(root) ==
    IterBSTree_collect(root, IterBSTree_in_order(root))

IterBSTree_postorder_iter(root) ==
    IterBSTree_collect(root, IterBSTree_post_order(root))

IterBSTree_levelorder_iter(root) ==
    IterBSTree_collect(root, IterBSTree_level_order(root))

\* ---------------------------------------------------------------------
\* Vocabulary for stating properties of a tree (not code of the crate)
\* ---------------------------------------------------------------------
\* the set of keys stored in the nodes of a tree
RECURSIVE KeysOf(_)
KeysOf(link) ==
    IF link = None THEN {}
    ELSE {Unwrap(link).key} \cup KeysOf(Unwrap(link).left)
                            \cup KeysOf(Unwrap(link).right)

\* the number of nodes of a tree
RECURSIVE Size(_)
Size(link) ==
    IF link = None THEN 0
    ELSE 1 + Size(Unwrap(link).left) + Size(Unwrap(link).right)

\* the tree with its values erased
RECURSIVE Shape(_)
Shape(link) ==
    IF link = None THEN None
    ELSE Some([key |-> Unwrap(link).key,
               left |-> Shape(Unwrap(link).left),
               right |-> Shape(Unwrap(link).right)])

\* one record per node: its key, value, parent key (0 for the root) and the
\* side of the parent it hangs on; a tree is determined by this set
RECURSIVE Facts(_, _, _)
Facts(link, parent, side) ==
    IF link = None THEN {}
    ELSE LET n == Unwrap(link)
         IN  {[key |-> n.key, value |-> n.value,
               parent |-> parent, side |-> side]}
                 \cup Facts(n.left, n.key, "L")
                 \cup Facts(n.right, n.key, "R")

NodeFacts(link) == Facts(link, 0, "root")

\* the subtree whose root carries key k, found by looking everywhere
RECURSIVE FindSubtree(_, _)
FindSubtree(link, k) ==
    IF link = None THEN None
    ELSE IF Unwrap(link).key = k THEN link
    ELSE LET l == FindSubtree(Unwrap(link).left, k)
         IN  IF l # None THEN l ELSE FindSubtree(Unwrap(link).right, k)

\* a reference map Keys -> value, 0 standing for an absent key
EmptyMap == [q \in Keys |-> 0]
MapKeys(m) == {q \in Keys : m[q] # 0}

\* the listing of a reference map in ascending key order
RECURSIVE SortedFrom(_, _)
SortedFrom(m, q) ==
    IF q > MaxKey THEN <<>>
    ELSE (IF m[q] # 0 THEN <<(<<q, m[q]>>)>> ELSE <<>>)
             \o SortedFrom(m, q + 1)

SortedListing(m) == SortedFrom(m, 1)

\* ---------------------------------------------------------------------
\* State: the two engines side by side, driven by the same calls
\* ---------------------------------------------------------------------
VARIABLES
    rtree,  \* recursive engine: BSTree.root
    itree,  \* explicit-stack engine: BSTree.root
    rrm,    \* recursive engine: tree returned by the last call (remove_tree)
    irm,    \* explicit-stack engine: tree returned by the last call
    last,   \* the last call: [op, key, value]
    rpre,   \* rtree as it was before the last call
    ipre,   \* itree as it was before the last call
    ref,    \* reference map driven by the same calls
    riter,  \* recursive engine: the live TraverseIter, None if there is none
    iiter,  \* explicit-stack engine: the live TraverseIter
    taken,  \* what next() has returned from the live iterators so far
    run     \* the call of the explicit-stack engine that is running loop by
            \* loop iteration, Idle if there is none

vars ==
    <<rtree, itree, rrm, irm, last, rpre, ipre, ref, riter, iiter, taken, run>>

\* the record of the answers of next(): the pairs yielded by each engine's
\* iterator, the last answer of each, and the number of None answers
NothingTaken ==
    [rout |-> <<>>, iout |-> <<>>, rret |-> None, iret |-> None, nones |-> 0]

\* the local variables of a running call: its arguments, the tree it works
\* on, the cursor (a path from the root and whether it is Some), the
\* candidate kept by successor / predecessor, the cursor link, stack or
\* queue, output and previous node of a traversal, the keys pushed so far,
\* the number of loop iterations made, and the value returned at the end
Idle ==
    [op |-> "idle", key |-> 0, value |-> 0, tree |-> None, cur |-> <<>>,
     some |-> FALSE, cand |-> None, link |-> None, stack |-> <<>>,
     res |-> <<>>, prev |-> None, pushed |-> <<>>, steps |-> 0,
     ret |-> None, done |-> FALSE]

\* a TraverseIter borrows the tree, so a call that mutates the tree can only
\* be made once the iterator is gone
IterDropped ==
    /\ riter' = None
    /\ iiter' = None
    /\ taken' = NothingTaken

Init ==
    /\ rtree = BSTree_new
    /\ itree = BSTree_new
    /\ rrm = BSTree_new
    /\ irm = BSTree_new
    /\ last = [op |-> "new", key |-> 0, value |-> 0]
    /\ rpre = BSTree_new
    /\ ipre = BSTree_new
    /\ ref = EmptyMap
    /\ riter = None
    /\ iiter = None
    /\ taken = NothingTaken
    /\ run = Idle

Insert(k, v) ==
    /\ rtree' = RecBSTree_insert(rtree, k, v)
    /\ itree' = IterBSTree_insert(itree, k, v)
    /\ rrm' = BSTree_new
    /\ irm' = BSTree_new
    /\ last' = [op |-> "insert", key |-> k, value |-> v]
    /\ rpre' = rtree
    /\ ipre' = itree
    /\ ref' = [ref EXCEPT ![k] = v]
    /\ IterDropped
    /\ run' = Idle

Delete(k) ==
    /\ rtree' = RecBSTree_delete(rtree, k)
    /\ itree' = IterBSTree_delete(itree, k)
    /\ rrm' = BSTree_new
    /\ irm' = BSTree_new
    /\ last' = [op |-> "delete", key |-> k, value |-> 0]
    /\ rpre' = rtree
    /\ ipre' = itree
    /\ ref' = [ref EXCEPT ![k] = 0]
    /\ IterDropped
    /\ run' = Idle

DeleteTree(k) ==
    /\ rtree' = RecBSTree_delete_tree(rtree, k)
    /\ itree' = IterBSTree_delete_tree(itree, k)
    /\ rrm' = BSTree_new
    /\ irm' = BSTree_new
    /\ last' = [op |-> "delete_tree", key |-> k, value |-> 0]
    /\ rpre' = rtree
    /\ ipre' = itree
    /\ ref' = [q \in Keys |->
                 IF q \in KeysOf(FindSubtree(rtree, k)) THEN 0 ELSE ref[q]]
    /\ IterDropped
    /\ run' = Idle

RemoveTree(k) ==
    /\ rtree' = RecBSTree_remove_tree(rtree, k)[1]
    /\ itree' = IterBSTree_remove_tree(itree, k)[1]
    /\ rrm' = RecBSTree_remove_tree(rtree, k)[2]
    /\ irm' = IterBSTree_remove_tree(itree, k)[2]
    /\ last' = [op |-> "remove_tree", key |-> k, value |-> 0]
    /\ rpre' = rtree
    /\ ipre' = itree
    /\ ref' = [q \in Keys |->
                 IF q \in KeysOf(FindSubtree(rtree, k)) THEN 0 ELSE ref[q]]
    /\ IterDropped
    /\ run' = Idle

Next ==
    \/ \E k \in Keys, v \in Values : Insert(k, v)
    \/ \E k \in Keys : Delete(k)
    \/ \E k \in Keys : DeleteTree(k)
    \/ \E k \in Keys : RemoveTree(k)

Spec == Init /\ [][Next]_vars

\* ---------------------------------------------------------------------
\* Traversal iterators: src/src/iterator.rs
\* A TraverseIter is the record of its field data, the VecDeque of pairs.
\* ---------------------------------------------------------------------
TraverseIter_new(queue) == [data |-> queue]

\* next() with the pair taken from the wrong end (pop_back)
Mut_TraverseIter_next(self) ==
    IF self.data = <<>> THEN <<self, None>>
    ELSE <<[self EXCEPT !.data = SubSeq(self.data, 1, Len(self.data) - 1)],
           Some(self.data[Len(self.data)])>>

\* next() is data.pop_front(): yields <<iterator after the call, answer>>
TraverseIter_next(self) ==
    IF self.data = <<>> THEN <<self, None>>
    ELSE <<[self EXCEPT !.data = Tail(self.data)], Some(Head(self.data))>>

\* how many answers of None a run records for one exhausted iterator
MaxNones == 2

IterKinds ==
    {"preorder_iter", "inorder_iter", "postorder_iter", "levelorder_iter"}

\* the part common to the four *_iter calls: the trees are only read, the
\* call returns a new iterator over the queue it has built
IterCreated(kind, rqueue, iqueue) ==
    /\ riter' = Some(TraverseIter_new(rqueue))
    /\ iiter' = Some(TraverseIter_new(iqueue))
    /\ taken' = NothingTaken
    /\ last' = [op |-> kind, key |-> 0, value |-> 0]
    /\ rpre' = rtree
    /\ ipre' = itree
    /\ rrm' = BSTree_new
    /\ irm' = BSTree_new
    /\ UNCHANGED <<rtree, itree, ref, run>>

PreorderIter ==
    IterCreated("preorder_iter", RecBSTree_preorder_iter(rtree),
                IterBSTree_preorder_iter(itree))

InorderIter ==
    IterCreated("inorder_iter", RecBSTree_inorder_iter(rtree),
                IterBSTree_inorder_iter(itree))

PostorderIter ==
    IterCreated("postorder_iter", RecBSTree_postorder_iter(rtree),
                IterBSTree_postorder_iter(itree))

LevelorderIter ==
    IterCreated("levelorder_iter", RecBSTree_levelorder_iter(rtree),
                IterBSTree_levelorder_iter(itree))

\* one call of next() on the live iterator of each engine
IterNext ==
    /\ riter # None /\ iiter # None
    /\ LET r == TraverseIter_next(Unwrap(riter))
           i == TraverseIter_next(Unwrap(iiter))
       IN  /\ (r[2] = None \/ i[2] = None) => taken.nones < MaxNones
           /\ riter' = Some(r[1])
           /\ iiter' = Some(i[1])
           /\ taken' =
                 [rout |-> IF r[2] # None
                           THEN Append(taken.rout, Unwrap(r[2]))
                           ELSE taken.rout,
                  iout |-> IF i[2] # None
                           THEN Append(taken.iout, Unwrap(i[2]))
                           ELSE taken.iout,
                  rret |-> r[2],
                  iret |-> i[2],
                  nones |-> IF r[2] = None \/ i[2] = None
                            THEN taken.nones + 1 ELSE taken.nones]
    /\ UNCHANGED <<rtree, itree, rrm, irm, last, rpre, ipre, ref, run>>

NextIter ==
    \/ \E k \in Keys, v \in Values : Insert(k, v)
    \/ \E k \in Keys : Delete(k)
    \/ \E k \in Keys : DeleteTree(k)
    \/ \E k \in Keys : RemoveTree(k)
    \/ PreorderIter
    \/ InorderIter
    \/ PostorderIter
    \/ LevelorderIter
    \/ IterNext

SpecIter == Init /\ [][NextIter]_vars

\* ---------------------------------------------------------------------

\* The loops of the explicit-stack engine, one iteration at a time:
\* src/src/bstree_no_recursion/bstree.rs, src/src/bstree_no_recursion/node.rs
\* A step operator takes the local variables of the running call before a
\* loop test and gives them as they are before the next one.
\* ---------------------------------------------------------------------
\* the link a cursor path refers to, None when the walk has left the tree
RECURSIVE LinkAt(_, _)
LinkAt(link, path) ==
    IF path = <<>> THEN link
    ELSE IF Head(path) = "L"
    THEN LinkAt(Unwrap(link).left, Tail(path))
    ELSE LinkAt(Unwrap(link).right, Tail(path))

\* the loop test fails: the code after the loop returns v
LoopExit(r, v) == [r EXCEPT !.ret = v, !.done = TRUE]

\* the loop body returns v
LoopReturn(r, v) ==
    [r EXCEPT !.steps = @ + 1, !.ret = v, !.done = TRUE]

\* the loop body assigns the child on the given side to the cursor
LoopDescend(r, side) ==
    [r EXCEPT !.steps = @ + 1,
              !.cur = Append(@, side),
              !.some = LinkAt(r.tree, Append(r.cur, side)) # None]

\* the loop body ends without assigning the cursor that take() has emptied;
\* the tree is t by then
LoopFallThrough(r, t) ==
    [r EXCEPT !.steps = @ + 1, !.tree = t, !.some = FALSE]

\* `while let Some(cur) = current.take()` of insert
IterBSTree_insert_step(r) ==
    IF ~r.some THEN LoopExit(r, r.tree)
    ELSE LET cur == NodeAt(r.tree, r.cur)
             leaf == Some(Node_new(r.key, r.value))
         IN  IF r.key < cur.key
             THEN IF cur.left = None
                  THEN LET t == WriteAt(r.tree, r.cur,
                                        [cur EXCEPT !.left = leaf])
                       IN  LoopReturn([r EXCEPT !.tree = t], t)
                  ELSE LoopDescend(r, "L")
             ELSE IF r.key > cur.key
             THEN IF cur.right = None
                  THEN LET t == WriteAt(r.tree, r.cur,
                                        [cur EXCEPT !.right = leaf])
                       IN  LoopReturn([r EXCEPT !.tree = t], t)
                  ELSE LoopDescend(r, "R")
             ELSE LET t == WriteAt(r.tree, r.cur,
                                   [cur EXCEPT !.value = r.value])
                  IN  LoopReturn([r EXCEPT !.tree = t], t)

\* delete whose loop assigns the cursor the node it already refers to when
\* the child holds another key
Mut_IterBSTree_delete_step(r) ==
    IF ~r.some THEN LoopExit(r, r.tree)
    ELSE LET cur == NodeAt(r.tree, r.cur)
         IN  IF r.key < cur.key /\ cur.left # None
                /\ Unwrap(cur.left).key = r.key
             THEN LoopFallThrough(r, WriteAt(r.tree, r.cur,
                      [cur EXCEPT !.left =
                                     IterNode_delete_root(Unwrap(cur.left))]))
             ELSE IF r.key > cur.key /\ cur.right # None
                     /\ Unwrap(cur.right).key = r.key
             THEN LoopFallThrough(r, WriteAt(r.tree, r.cur,
                      [cur EXCEPT !.right =
                                     IterNode_delete_root(Unwrap(cur.right))]))
             ELSE IF (r.key < cur.key /\ cur.left # None)
                     \/ (r.key > cur.key /\ cur.right # None)
             THEN [r EXCEPT !.steps = @ + 1]
             ELSE LoopFallThrough(r, r.tree)

\* `while let Some(cur) = current.take()` of delete
IterBSTree_delete_step(r) ==
    IF ~r.some THEN LoopExit(r, r.tree)
    ELSE LET cur == NodeAt(r.tree, r.cur)
         IN  IF r.key < cur.key
             THEN IF cur.left # None
                  THEN LET left == Unwrap(cur.left)
                       IN  IF left.key = r.key
                           THEN LoopFallThrough(r, WriteAt(r.tree, r.cur,
                                    [cur EXCEPT !.left =
                                                   IterNode_delete_root(left)]))
                           ELSE LoopDescend(r, "L")
                  ELSE LoopFallThrough(r, r.tree)
             ELSE IF r.key > cur.key
             THEN IF cur.right # None
                  THEN LET right == Unwrap(cur.right)
                       IN  IF right.key = r.key
                           THEN LoopFallThrough(r, WriteAt(r.tree, r.cur,
                                    [cur EXCEPT !.right =
                                                   IterNode_delete_root(right)]))
                           ELSE LoopDescend(r, "R")
                  ELSE LoopFallThrough(r, r.tree)
             ELSE LoopFallThrough(r, r.tree)

\* `while let Some(cur) = current.take()` of delete_tree
IterBSTree_delete_tree_step(r) ==
    IF ~r.some THEN LoopExit(r, r.tree)
    ELSE LET cur == NodeAt(r.tree, r.cur)
         IN  IF r.key < cur.key
             THEN IF cur.left # None
                  THEN IF Unwrap(cur.left).key = r.key
                       THEN LoopFallThrough(r, WriteAt(r.tree, r.cur,
                                [cur EXCEPT !.left = None]))
                       ELSE LoopDescend(r, "L")
                  ELSE LoopFallThrough(r, r.tree)
             ELSE IF r.key > cur.key
             THEN IF cur.right # None
                  THEN IF Unwrap(cur.right).key = r.key
                       THEN LoopFallThrough(r, WriteAt(r.tree, r.cur,
                                [cur EXCEPT !.right = None]))
                       ELSE LoopDescend(r, "R")
                  ELSE LoopFallThrough(r, r.tree)
             ELSE LoopFallThrough(r, r.tree)

\* `while let Some(cur) = current.take()` of remove_tree; the call returns
\* <<source tree after the call, returned tree>>
IterBSTree_remove_tree_step(r) ==
    IF ~r.some THEN LoopExit(r, <<r.tree, BSTree_new>>)
    ELSE LET cur == NodeAt(r.tree, r.cur)
         IN  IF r.key < cur.key
             THEN IF cur.left # None
                  THEN IF Unwrap(cur.left).key = r.key
                       THEN LET t == WriteAt(r.tree, r.cur,
                                             [cur EXCEPT !.left = None])
                            IN  LoopReturn([r EXCEPT !.tree = t],
                                           <<t, cur.left>>)
                       ELSE LoopDescend(r, "L")
                  ELSE LoopFallThrough(r, r.tree)
             ELSE IF r.key > cur.key
             THEN IF cur.right # None
                  THEN IF Unwrap(cur.right).key = r.key
                       THEN LET t == WriteAt(r.tree, r.cur,
                                             [cur EXCEPT !.right = None])
                            IN  LoopReturn([r EXCEPT !.tree = t],
                                           <<t, cur.right>>)
                       ELSE LoopDescend(r, "R")
                  ELSE LoopFallThrough(r, r.tree)
             ELSE LoopFallThrough(r, r.tree)

\* `while let Some(mut left) = current.left.take()` of Node::remove_min;
\* r.tree is Some(self), the call returns <<remaining tree, minimum node>>
IterNode_remove_min_step(r) ==
    LET self == Unwrap(r.tree)
        cur == NodeAt(r.tree, r.cur)
    IN  IF cur.left # None
        THEN LET left == Unwrap(cur.left)
             IN  IF left.left = None
                 THEN LET t == WriteAt(r.tree, r.cur,
                                       [cur EXCEPT !.left = left.right])
                      IN  LoopReturn([r EXCEPT !.tree = t],
                                     <<t, [left EXCEPT !.right = None]>>)
                 ELSE LoopDescend(r, "L")
        ELSE LoopExit(r, <<self.right, [self EXCEPT !.right = None]>>)

\* `while let Some(node) = current.take()` of get_pair
IterBSTree_get_pair_step(r) ==
    IF ~r.some THEN LoopExit(r, None)
    ELSE LET node == NodeAt(r.tree, r.cur)
         IN  IF r.key < node.key THEN LoopDescend(r, "L")
             ELSE IF r.key > node.key THEN LoopDescend(r, "R")
             ELSE LoopReturn(r, Some(<<node.key, node.value>>))

\* `while let Some(cur) = current.take()` of max_pair and of min_pair
IterBSTree_max_pair_step(r) ==
    IF ~r.some THEN LoopExit(r, None)
    ELSE LET cur == NodeAt(r.tree, r.cur)
         IN  IF cur.right = None
             THEN LoopReturn(r, Some(<<cur.key, cur.value>>))
             ELSE LoopDescend(r, "R")

IterBSTree_min_pair_step(r) ==
    IF ~r.some THEN LoopExit(r, None)
    ELSE LET cur == NodeAt(r.tree, r.cur)
         IN  IF cur.left = None
             THEN LoopReturn(r, Some(<<cur.key, cur.value>>))
             ELSE LoopDescend(r, "L")

\* successor.map(|node| (&node.key, &node.value)) after the loop
CandidatePair(cand) ==
    IF cand = None THEN None
    ELSE Some(<<Unwrap(cand).key, Unwrap(cand).value>>)

\* `while let Some(node) = current` of successor and of predecessor
IterBSTree_successor_step(r) ==
    IF ~r.some THEN LoopExit(r, CandidatePair(r.cand))
    ELSE LET node == NodeAt(r.tree, r.cur)
         IN  IF node.key > r.key
             THEN LoopDescend([r EXCEPT !.cand = Some(node)], "L")
             ELSE LoopDescend(r, "R")

IterBSTree_predecessor_step(r) ==
    IF ~r.some THEN LoopExit(r, CandidatePair(r.cand))
    ELSE LET node == NodeAt(r.tree, r.cur)
         IN  IF node.key < r.key
             THEN LoopDescend([r EXCEPT !.cand = Some(node)], "R")
             ELSE LoopDescend(r, "L")

\* ---------------------------------------------------------------------

\* the keys of the nodes pushed on a stack or queue that grew from old to new
PushedKeys(old, new) ==
    [a \in 1..(Len(new) - Len(old)) |-> new[Len(old) + a].key]

\* `while cur.is_some() || !stack.is_empty()` of prev_order
IterBSTree_prev_order_step(r) ==
    IF r.link # None \/ r.stack # <<>>
    THEN LET p == IterBSTree_prev_order_push(r.link, r.res, r.stack)
             res1 == p[1]
             stack1 == p[2]
             more == [r EXCEPT !.steps = @ + 1,
                               !.res = res1,
                               !.pushed = @ \o PushedKeys(r.stack, stack1)]
         IN  IF stack1 = <<>>
             THEN [more EXCEPT !.link = None, !.stack = stack1]
             ELSE [more EXCEPT !.link = Back(stack1).right,
                               !.stack = PopBack(stack1)]
    ELSE LoopExit(r, r.res)

\* `while cur.is_some() || !stack.is_empty()` of in_order
IterBSTree_in_order_step(r) ==
    IF r.link # None \/ r.stack # <<>>
    THEN LET stack1 == IterBSTree_push_left(r.link, r.stack)
             more == [r EXCEPT !.steps = @ + 1,
                               !.pushed = @ \o PushedKeys(r.stack, stack1)]
         IN  IF stack1 = <<>>
             THEN [more EXCEPT !.link = None, !.stack = stack1]
             ELSE [more EXCEPT !.link = Back(stack1).right,
                               !.res = Append(@, Back(stack1).key),
                               !.stack = PopBack(stack1)]
    ELSE LoopExit(r, r.res)

\* `while cur.is_some() || !stack.is_empty()` of post_order
IterBSTree_post_order_step(r) ==
    IF r.link # None \/ r.stack # <<>>
    THEN LET stack1 == IterBSTree_push_left(r.link, r.stack)
             more == [r EXCEPT !.steps = @ + 1,
                               !.pushed = @ \o PushedKeys(r.stack, stack1)]
         IN  IF stack1 = <<>> THEN LoopReturn(r, Panic)
             ELSE LET top == Back(stack1)
                  IN  IF top.right = None \/ OptNode_eq(top.right, r.prev)
                      THEN [more EXCEPT !.link = None,
                                        !.res = Append(@, top.key),
                                        !.prev = Some(top),
                                        !.stack = PopBack(stack1)]
                      ELSE [more EXCEPT !.link = top.right,
                                        !.stack = stack1]
    ELSE LoopExit(r, r.res)

\* `while !queue.is_empty()` of level_order; r.stack is the queue
IterBSTree_level_order_step(r) ==
    IF r.stack # <<>>
    THEN LET node == Head(r.stack)
             q1 == Tail(r.stack)
             q2 == IF node.left # None
                   THEN Append(q1, Unwrap(node.left)) ELSE q1
             q3 == IF node.right # None
                   THEN Append(q2, Unwrap(node.right)) ELSE q2
         IN  [r EXCEPT !.steps = @ + 1,
                       !.res = Append(@, node.key),
                       !.pushed = @ \o PushedKeys(q1, q3),
                       !.stack = q3]
    ELSE LoopExit(r, r.res)

\* ---------------------------------------------------------------------

\* Calls of the explicit-stack engine run one loop iteration at a time.
\* The recursive engine and the reference map follow when the call returns.
\* ---------------------------------------------------------------------
\* no run makes more loop iterations than this
MaxSteps == 14

\* a call starts: its local variables are r0, the trees are as they were
CallBegun(r0) ==
    /\ run = Idle
    /\ run' = r0
    /\ last' = [op |-> "call", key |-> 0, value |-> 0]
    /\ rpre' = rtree
    /\ ipre' = itree
    /\ rrm' = BSTree_new
    /\ irm' = BSTree_new
    /\ IterDropped
    /\ UNCHANGED <<rtree, itree, ref>>

\* the local variables of a walk over tree t before its first loop test
WalkFrom(op, key, value, t) ==
    [Idle EXCEPT !.op = op, !.key = key, !.value = value, !.tree = t,
                 !.some = t # None]

\* the call has returned before its loop, leaving tree t and returning v
ReturnedEarly(op, key, value, t, v) ==
    [Idle EXCEPT !.op = op, !.key = key, !.value = value, !.tree = t,
                 !.ret = v, !.done = TRUE]

\* the local variables of a stack traversal of tree t before its first test
TraversalFrom(op, t) ==
    [Idle EXCEPT !.op = op, !.tree = t, !.link = t]

CallInsert(k, v) ==
    CallBegun(IF itree = None
              THEN ReturnedEarly("insert", k, v, Some(Node_new(k, v)),
                                 Some(Node_new(k, v)))
              ELSE WalkFrom("insert", k, v, itree))

CallDelete(k) ==
    CallBegun(IF itree # None /\ Unwrap(itree).key = k
              THEN ReturnedEarly("delete", k, 0,
                                 IterNode_delete_root(Unwrap(itree)),
                                 IterNode_delete_root(Unwrap(itree)))
              ELSE WalkFrom("delete", k, 0, itree))

CallDeleteTree(k) ==
    CallBegun(IF itree # None /\ Unwrap(itree).key = k
              THEN ReturnedEarly("delete_tree", k, 0, None, None)
              ELSE WalkFrom("delete_tree", k, 0, itree))

CallRemoveTree(k) ==
    CallBegun(IF itree # None /\ Unwrap(itree).key = k
              THEN ReturnedEarly("remove_tree", k, 0, None, <<None, itree>>)
              ELSE WalkFrom("remove_tree", k, 0, itree))

\* remove_min is called by combine_two_subtrees on the right subtree of a
\* node that has two children
CallRemoveMin(k) ==
    LET deleted == FindSubtree(itree, k)
    IN  /\ deleted # None
        /\ Unwrap(deleted).left # None
        /\ Unwrap(deleted).right # None
        /\ CallBegun(WalkFrom("remove_min", k, 0, Unwrap(deleted).right))

CallGetPair(k) == CallBegun(WalkFrom("get_pair", k, 0, itree))

CallMaxPair == CallBegun(WalkFrom("max_pair", 0, 0, itree))

CallMinPair == CallBegun(WalkFrom("min_pair", 0, 0, itree))

CallSuccessor(k) == CallBegun(WalkFrom("successor", k, 0, itree))

CallPredecessor(k) == CallBegun(WalkFrom("predecessor", k, 0, itree))

CallPrevOrder == CallBegun(TraversalFrom("prev_order", itree))

CallInOrder == CallBegun(TraversalFrom("in_order", itree))

CallPostOrder == CallBegun(TraversalFrom("post_order", itree))

CallLevelOrder ==
    CallBegun([TraversalFrom("level_order", itree) EXCEPT
                  !.link = None,
                  !.stack = IF itree # None THEN <<Unwrap(itree)>> ELSE <<>>,
                  !.pushed = IF itree # None THEN <<Unwrap(itree).key>>
                                             ELSE <<>>])

\* the running call op makes one loop iteration, or leaves its loop
Iterated(op, r1) ==
    /\ run.op = op
    /\ ~run.done
    /\ run.steps < MaxSteps
    /\ run' = r1
    /\ UNCHANGED <<rtree, itree, rrm, irm, last, rpre, ipre, ref,
                   riter, iiter, taken>>

StepInsert == Iterated("insert", IterBSTree_insert_step(run))
StepDelete == Iterated("delete", IterBSTree_delete_step(run))
StepDeleteTree == Iterated("delete_tree", IterBSTree_delete_tree_step(run))
StepRemoveTree == Iterated("remove_tree", IterBSTree_remove_tree_step(run))
StepRemoveMin == Iterated("remove_min", IterNode_remove_min_step(run))
StepGetPair == Iterated("get_pair", IterBSTree_get_pair_step(run))
StepMaxPair == Iterated("max_pair", IterBSTree_max_pair_step(run))
StepMinPair == Iterated("min_pair", IterBSTree_min_pair_step(run))
StepSuccessor == Iterated("successor", IterBSTree_successor_step(run))
StepPredecessor == Iterated("predecessor", IterBSTree_predecessor_step(run))
StepPrevOrder == Iterated("prev_order", IterBSTree_prev_order_step(run))
StepInOrder == Iterated("in_order", IterBSTree_in_order_step(run))
StepPostOrder == Iterated("post_order", IterBSTree_post_order_step(run))
StepLevelOrder == Iterated("level_order", IterBSTree_level_order_step(run))

\* the calls that take &mut self
MutatingCalls == {"insert", "delete", "delete_tree", "remove_tree"}

\* a call that takes &mut self returns: both engines and the reference map
\* have made the call
ReturnInsert ==
    /\ run.op = "insert" /\ run.done
    /\ Insert(run.key, run.value)

ReturnDelete ==
    /\ run.op = "delete" /\ run.done
    /\ Delete(run.key)

ReturnDeleteTree ==
    /\ run.op = "delete_tree" /\ run.done
    /\ DeleteTree(run.key)

ReturnRemoveTree ==
    /\ run.op = "remove_tree" /\ run.done
    /\ RemoveTree(run.key)

\* a call that only reads returns
ReturnRead ==
    /\ run.op \notin MutatingCalls \cup {"idle"}
    /\ run.done
    /\ run' = Idle
    /\ UNCHANGED <<rtree, itree, rrm, irm, last, rpre, ipre, ref,
                   riter, iiter, taken>>

NextLoop ==
    \/ \E k \in Keys, v \in Values : CallInsert(k, v)
    \/ \E k \in Keys : CallDelete(k)
    \/ \E k \in Keys : CallDeleteTree(k)
    \/ \E k \in Keys : CallRemoveTree(k)
    \/ \E k \in Keys : CallRemoveMin(k)
    \/ \E k \in QueryKeys : CallGetPair(k)
    \/ CallMaxPair
    \/ CallMinPair
    \/ \E k \in QueryKeys : CallSuccessor(k)
    \/ \E k \in QueryKeys : CallPredecessor(k)
    \/ CallPrevOrder
    \/ CallInOrder
    \/ CallPostOrder
    \/ CallLevelOrder
    \/ StepInsert
    \/ StepDelete
    \/ StepDeleteTree
    \/ StepRemoveTree
    \/ StepRemoveMin
    \/ StepGetPair
    \/ StepMaxPair
    \/ StepMinPair
    \/ StepSuccessor
    \/ StepPredecessor
    \/ StepPrevOrder
    \/ StepInOrder
    \/ StepPostOrder
    \/ StepLevelOrder
    \/ ReturnInsert
    \/ ReturnDelete
    \/ ReturnDeleteTree
    \/ ReturnRemoveTree
    \/ ReturnRead

SpecLoop == Init /\ [][NextLoop]_vars

\* ---------------------------------------------------------------------

\* Properties
\* ---------------------------------------------------------------------
\* the node of tree t that carries key k (k must be stored in t)
NodeOf(t, k) == Unwrap(FindSubtree(t, k))

HasTwoChildren(t, k) ==
    /\ k \in KeysOf(t)
    /\ NodeOf(t, k).left # None
    /\ NodeOf(t, k).right # None

RECURSIVE IsOrdered(_)
IsOrdered(link) ==
    \/ link = None
    \/ LET n == Unwrap(link)
       IN  /\ \A q \in KeysOf(n.left) : q < n.key
           /\ \A q \in KeysOf(n.right) : q > n.key
           /\ IsOrdered(n.left)
           /\ IsOrdered(n.right)

NoDuplicateKeys(link) == Size(link) = Cardinality(KeysOf(link))

SearchTree(link) == IsOrdered(link) /\ NoDuplicateKeys(link)

\* C1: after any sequence of insert, delete, delete_tree and remove_tree
\* calls, in either engine, every node's left subtree holds only smaller
\* keys and its right subtree only greater keys, and no key occurs twice;
\* the tree returned by remove_tree satisfies the same.
C1_SearchTreeOrder ==
    /\ SearchTree(rtree)
    /\ SearchTree(itree)
    /\ SearchTree(rrm)
    /\ SearchTree(irm)

\* a delete of a node with two children in a tree of five nodes has acted
C1_Witness ==
    /\ last.op = "delete"
    /\ HasTwoChildren(rpre, last.key)
    /\ HasTwoChildren(ipre, last.key)
    /\ Size(rtree) = 4
    /\ Size(itree) = 4

ObservationsAgree(r, i) ==
    /\ BSTree_is_empty(r) = BSTree_is_empty(i)
    /\ RecBSTree_min_pair(r) = IterBSTree_min_pair(i)
    /\ RecBSTree_max_pair(r) = IterBSTree_max_pair(i)
    /\ \A q \in QueryKeys :
          /\ RecBSTree_get(r, q) = IterBSTree_get(i, q)
          /\ RecBSTree_get_pair(r, q) = IterBSTree_get_pair(i, q)
          /\ RecBSTree_contains(r, q) = IterBSTree_contains(i, q)
          /\ RecBSTree_successor(r, q) = IterBSTree_successor(i, q)
          /\ RecBSTree_predecessor(r, q) = IterBSTree_predecessor(i, q)
    /\ RecBSTree_preorder_iter(r) = IterBSTree_preorder_iter(i)
    /\ RecBSTree_inorder_iter(r) = IterBSTree_inorder_iter(i)
    /\ RecBSTree_postorder_iter(r) = IterBSTree_postorder_iter(i)
    /\ RecBSTree_levelorder_iter(r) = IterBSTree_levelorder_iter(i)

\* C2: driven by the same calls from an empty tree, the recursive and the
\* explicit-stack engine hold the same tree (shape, keys, values) after
\* every step and return the same tree from remove_tree, and every
\* observation of the two agrees: is_empty, get, get_pair, contains,
\* min_pair, max_pair, successor, predecessor and the four traversals.
C2_EnginesAgree ==
    /\ rtree = itree
    /\ rrm = irm
    /\ ObservationsAgree(rtree, itree)
    /\ ObservationsAgree(rrm, irm)

\* remove_tree has cut a branch of at least two nodes out of a larger tree
C2_Witness ==
    /\ last.op = "remove_tree"
    /\ Size(rrm) >= 2
    /\ Size(irm) >= 2
    /\ Size(rtree) >= 2
    /\ Size(itree) >= 2

StrictlyAscending(pairs) ==
    \A a, b \in 1..Len(pairs) : a < b => pairs[a][1] < pairs[b][1]

\* C3: inorder_iter yields keys in strictly ascending order, and the pairs
\* it yields are the sorted listing of a reference map driven by the same
\* insert (put) and delete (remove if present) calls.
C3_InorderSorted ==
    /\ StrictlyAscending(RecBSTree_inorder_iter(rtree))
    /\ StrictlyAscending(IterBSTree_inorder_iter(itree))
    /\ RecBSTree_inorder_iter(rtree) = SortedListing(ref)
    /\ IterBSTree_inorder_iter(itree) = SortedListing(ref)

\* a present key has been deleted and at least three pairs are listed
C3_Witness ==
    /\ last.op = "delete"
    /\ last.key \in KeysOf(rpre)
    /\ Len(RecBSTree_inorder_iter(rtree)) >= 3
    /\ Len(IterBSTree_inorder_iter(itree)) >= 3
    /\ \E q \in MapKeys(ref) : ref[q] = 1
    /\ \E q \in MapKeys(ref) : ref[q] = 2

\* the value stored for key q anywhere in tree t, 0 if q is not stored
StoredValue(t, q) ==
    IF q \in KeysOf(t) THEN NodeOf(t, q).value ELSE 0

\* the last call was op
Called(op) == last.op = op

\* C4: inserting a key that is already in the tree keeps the node count,
\* the key set and the shape, makes get(k) return the new value, and
\* leaves the value of every other key as it was.
C4_InsertOverwrite ==
    Called("insert") =>
      /\ last.key \in KeysOf(rpre) =>
           /\ Size(rtree) = Size(rpre)
           /\ KeysOf(rtree) = KeysOf(rpre)
           /\ Shape(rtree) = Shape(rpre)
           /\ RecBSTree_get(rtree, last.key) = Some(last.value)
           /\ \A q \in Keys \ {last.key} :
                 /\ RecBSTree_get(rtree, q) = RecBSTree_get(rpre, q)
                 /\ StoredValue(rtree, q) = StoredValue(rpre, q)
      /\ last.key \in KeysOf(ipre) =>
           /\ Size(itree) = Size(ipre)
           /\ KeysOf(itree) = KeysOf(ipre)
           /\ Shape(itree) = Shape(ipre)
           /\ IterBSTree_get(itree, last.key) = Some(last.value)
           /\ \A q \in Keys \ {last.key} :
                 /\ IterBSTree_get(itree, q) = IterBSTree_get(ipre, q)
                 /\ StoredValue(itree, q) = StoredValue(ipre, q)

\* a key below the root of a tree of at least three nodes has been
\* inserted again with a value different from the one it had
C4_Witness ==
    /\ Called("insert")
    /\ last.key \in KeysOf(rpre) /\ last.key \in KeysOf(ipre)
    /\ Size(rpre) >= 3 /\ Size(ipre) >= 3
    /\ Unwrap(rpre).key # last.key /\ Unwrap(ipre).key # last.key
    /\ StoredValue(rpre, last.key) # last.value
    /\ StoredValue(ipre, last.key) # last.value

\* the node the comparison walk for k ends at; 0 in an empty tree
RECURSIVE WalkEnd(_, _, _)
WalkEnd(link, k, reached) ==
    IF link = None THEN reached
    ELSE LET n == Unwrap(link)
         IN  IF k < n.key THEN WalkEnd(n.left, k, n.key)
             ELSE IF k > n.key THEN WalkEnd(n.right, k, n.key)
             ELSE n.key

\* post is pre plus one new leaf <<k, v>>, hung where the walk for k ends
NewLeafAdded(pre, post, k, v) ==
    /\ Size(post) = Size(pre) + 1
    /\ \A f \in NodeFacts(post) : f.parent # k
    /\ \E f \in NodeFacts(post) :
          /\ f.key = k
          /\ f.value = v
          /\ NodeFacts(post) = NodeFacts(pre) \cup {f}
          /\ (pre = None) <=> (f.parent = 0 /\ f.side = "root")
          /\ pre # None =>
                /\ f.parent = WalkEnd(pre, k, 0)
                /\ f.parent \in KeysOf(pre)
                /\ f.side = (IF k < f.parent THEN "L" ELSE "R")
                /\ \A g \in NodeFacts(pre) :
                      ~(g.parent = f.parent /\ g.side = f.side)

\* C5: insert(k, v) with k not in the tree adds exactly one node, the root
\* of an empty tree and otherwise a leaf at the missing child the comparison
\* walk reaches (left if k is smaller, right if greater); get(k) is v and
\* every node that existed keeps its key, value, parent and children.
C5_InsertNewLeaf ==
    Called("insert") =>
      /\ last.key \notin KeysOf(rpre) =>
           /\ NewLeafAdded(rpre, rtree, last.key, last.value)
           /\ RecBSTree_get(rtree, last.key) = Some(last.value)
      /\ last.key \notin KeysOf(ipre) =>
           /\ NewLeafAdded(ipre, itree, last.key, last.value)
           /\ IterBSTree_get(itree, last.key) = Some(last.value)

\* a new key has been inserted two or more levels below the root
C5_Witness ==
    /\ Called("insert")
    /\ last.key \notin KeysOf(rpre) /\ last.key \notin KeysOf(ipre)
    /\ Size(rpre) >= 3 /\ Size(ipre) >= 3
    /\ WalkEnd(rpre, last.key, 0) # Unwrap(rpre).key
    /\ WalkEnd(ipre, last.key, 0) # Unwrap(ipre).key
    /\ last.key \in KeysOf(rtree) /\ last.key \in KeysOf(itree)

\* C6: after delete(k) of a present key, contains(k) is false, every other
\* key that was reachable is still reachable with its value unchanged, and
\* the node count has dropped by exactly one.
C6_DeleteKeepsOthers ==
    Called("delete") =>
      /\ last.key \in KeysOf(rpre) =>
           /\ ~RecBSTree_contains(rtree, last.key)
           /\ Size(rtree) = Size(rpre) - 1
           /\ \A q \in Keys \ {last.key} :
                 /\ RecBSTree_contains(rpre, q) => RecBSTree_contains(rtree, q)
                 /\ RecBSTree_get(rtree, q) = RecBSTree_get(rpre, q)
      /\ last.key \in KeysOf(ipre) =>
           /\ ~IterBSTree_contains(itree, last.key)
           /\ Size(itree) = Size(ipre) - 1
           /\ \A q \in Keys \ {last.key} :
                 /\ IterBSTree_contains(ipre, q) => IterBSTree_contains(itree, q)
                 /\ IterBSTree_get(itree, q) = IterBSTree_get(ipre, q)

\* an internal node with two children, whose right child has a left child,
\* has been deleted
C6_Witness ==
    /\ Called("delete")
    /\ HasTwoChildren(rpre, last.key) /\ HasTwoChildren(ipre, last.key)
    /\ Unwrap(rpre).key # last.key /\ Unwrap(ipre).key # last.key
    /\ Unwrap(NodeOf(rpre, last.key).right).left # None
    /\ Unwrap(NodeOf(ipre, last.key).right).left # None
    /\ last.key \notin KeysOf(rtree) /\ last.key \notin KeysOf(itree)

\* the record of the node carrying key q in tree t
FactOf(t, q) == CHOOSE f \in NodeFacts(t) : f.key = q

\* the key of the child hanging on the given side of q in t, 0 if none
ChildKey(t, q, side) ==
    LET c == {f \in NodeFacts(t) : f.parent = q /\ f.side = side}
    IN  IF c = {} THEN 0 ELSE (CHOOSE f \in c : TRUE).key

\* the keys of the subtree rooted at q in t
SubtreeKeys(t, q) == KeysOf(FindSubtree(t, q))

MinKey(S) == CHOOSE m \in S : \A x \in S : m <= x

Moved(f, parent, side) == [f EXCEPT !.parent = parent, !.side = side]

\* post is pre with the node at k removed the standard way
StandardRemoval(pre, post, k) ==
    LET d == FactOf(pre, k)
        l == ChildKey(pre, k, "L")
        r == ChildKey(pre, k, "R")
    IN  IF l = 0 /\ r = 0
        THEN NodeFacts(post) = NodeFacts(pre) \ {d}
        ELSE IF r = 0
        THEN NodeFacts(post) =
                 (NodeFacts(pre) \ {d, FactOf(pre, l)})
                     \cup {Moved(FactOf(pre, l), d.parent, d.side)}
        ELSE IF l = 0
        THEN NodeFacts(post) =
                 (NodeFacts(pre) \ {d, FactOf(pre, r)})
                     \cup {Moved(FactOf(pre, r), d.parent, d.side)}
        ELSE LET m == MinKey(SubtreeKeys(pre, r))
                 x == ChildKey(pre, m, "R")
                 fm == FactOf(pre, m)
                 fl == FactOf(pre, l)
                 fr == FactOf(pre, r)
             IN  IF m = r
                 THEN NodeFacts(post) =
                          (NodeFacts(pre) \ {d, fm, fl})
                              \cup {Moved(fm, d.parent, d.side),
                                    Moved(fl, m, "L")}
                 ELSE NodeFacts(post) =
                          (NodeFacts(pre) \
                              ({d, fm, fl, fr} \cup
                               (IF x # 0 THEN {FactOf(pre, x)} ELSE {})))
                              \cup {Moved(fm, d.parent, d.side),
                                    Moved(fl, m, "L"),
                                    Moved(fr, m, "R")}
                              \cup (IF x # 0
                                    THEN {Moved(FactOf(pre, x), fm.parent, "L")}
                                    ELSE {})

\* C7: delete(k) of a present node, root or internal alike, detaches a
\* leaf, replaces a node with one child by that child's subtree, and
\* replaces a node with two children by the minimum of its right subtree,
\* which keeps the original left subtree on its left and the right subtree
\* without that minimum on its right, the minimum's right child taking the
\* minimum's place; every other node keeps its position.
C7_DeleteShape ==
    Called("delete") =>
      /\ last.key \in KeysOf(rpre) => StandardRemoval(rpre, rtree, last.key)
      /\ last.key \in KeysOf(ipre) => StandardRemoval(ipre, itree, last.key)

\* a node with two children has been deleted whose replacement, the
\* minimum of the right subtree, was not the right child and had a right
\* child of its own
C7_Witness ==
    /\ Called("delete")
    /\ HasTwoChildren(rpre, last.key) /\ HasTwoChildren(ipre, last.key)
    /\ LET r == ChildKey(rpre, last.key, "R")
           m == MinKey(SubtreeKeys(rpre, r))
       IN  m # r /\ ChildKey(rpre, m, "R") # 0
    /\ LET r == ChildKey(ipre, last.key, "R")
           m == MinKey(SubtreeKeys(ipre, r))
       IN  m # r /\ ChildKey(ipre, m, "R") # 0
    /\ Size(rtree) = 4 /\ Size(itree) = 4

\* C8: delete(k) and delete_tree(k) with a key that is not in the tree,
\* the empty tree included, leave the tree identical in shape, keys and
\* values; so deleting a key twice leaves the same tree as deleting it once.
C8_MissingKeyNoOp ==
    /\ (Called("delete") \/ Called("delete_tree")) =>
          /\ last.key \notin KeysOf(rpre) => rtree = rpre
          /\ last.key \notin KeysOf(ipre) => itree = ipre
    /\ \A q \in Keys :
          /\ RecBSTree_delete(RecBSTree_delete(rtree, q), q)
                = RecBSTree_delete(rtree, q)
          /\ IterBSTree_delete(IterBSTree_delete(itree, q), q)
                = IterBSTree_delete(itree, q)

\* delete has been called with a missing key whose walk passes the root of
\* a tree of at least three nodes
C8_Witness ==
    /\ Called("delete")
    /\ last.key \notin KeysOf(rpre) /\ last.key \notin KeysOf(ipre)
    /\ Size(rpre) >= 3 /\ Size(ipre) >= 3
    /\ WalkEnd(rpre, last.key, 0) # Unwrap(rpre).key
    /\ WalkEnd(ipre, last.key, 0) # Unwrap(ipre).key
    /\ Size(rtree) >= 3 /\ Size(itree) >= 3

\* post is pre without the subtree rooted at k, nothing else touched
BranchCut(pre, post, k) ==
    NodeFacts(post) = {f \in NodeFacts(pre) : f.key \notin SubtreeKeys(pre, k)}

\* C9: after delete_tree(k) of a present key, k and every descendant of
\* its node are unreachable, nothing is spliced or promoted, every node
\* outside that subtree keeps its value and position, and the tree is
\* empty when k was the root key.
C9_DeleteTreeBranch ==
    Called("delete_tree") =>
      /\ last.key \in KeysOf(rpre) =>
           /\ \A q \in SubtreeKeys(rpre, last.key) :
                 ~RecBSTree_contains(rtree, q)
           /\ BranchCut(rpre, rtree, last.key)
           /\ Unwrap(rpre).key = last.key => BSTree_is_empty(rtree)
      /\ last.key \in KeysOf(ipre) =>
           /\ \A q \in SubtreeKeys(ipre, last.key) :
                 ~IterBSTree_contains(itree, q)
           /\ BranchCut(ipre, itree, last.key)
           /\ Unwrap(ipre).key = last.key => BSTree_is_empty(itree)

\* delete_tree has cut a branch of at least two nodes below the root and
\* at least two nodes are left
C9_Witness ==
    /\ Called("delete_tree")
    /\ last.key \in KeysOf(rpre) /\ last.key \in KeysOf(ipre)
    /\ Cardinality(SubtreeKeys(rpre, last.key)) >= 2
    /\ Cardinality(SubtreeKeys(ipre, last.key)) >= 2
    /\ Size(rtree) >= 2 /\ Size(itree) >= 2
    /\ Size(rtree) = Size(rpre) - Cardinality(SubtreeKeys(rpre, last.key))
    /\ Size(itree) = Size(ipre) - Cardinality(SubtreeKeys(ipre, last.key))

\* C10: after rm = remove_tree(k) of a present key, the key sets of the
\* source and of rm are disjoint and together are the original key set,
\* with the values unchanged; rm is the original subtree rooted at k, the
\* source keeps everything outside that subtree in place; when k was the
\* root key, rm is the whole original tree and the source is empty.
C10_RemoveTreePartition ==
    Called("remove_tree") =>
      /\ last.key \in KeysOf(rpre) =>
           /\ KeysOf(rtree) \cap KeysOf(rrm) = {}
           /\ KeysOf(rtree) \cup KeysOf(rrm) = KeysOf(rpre)
           /\ \A q \in KeysOf(rtree) :
                 RecBSTree_get(rtree, q) = RecBSTree_get(rpre, q)
           /\ \A q \in KeysOf(rrm) :
                 RecBSTree_get(rrm, q) = RecBSTree_get(rpre, q)
           /\ rrm # None /\ Unwrap(rrm).key = last.key
           /\ rrm = FindSubtree(rpre, last.key)
           /\ BranchCut(rpre, rtree, last.key)
           /\ Unwrap(rpre).key = last.key =>
                 rrm = rpre /\ BSTree_is_empty(rtree)
      /\ last.key \in KeysOf(ipre) =>
           /\ KeysOf(itree) \cap KeysOf(irm) = {}
           /\ KeysOf(itree) \cup KeysOf(irm) = KeysOf(ipre)
           /\ \A q \in KeysOf(itree) :
                 IterBSTree_get(itree, q) = IterBSTree_get(ipre, q)
           /\ \A q \in KeysOf(irm) :
                 IterBSTree_get(irm, q) = IterBSTree_get(ipre, q)
           /\ irm # None /\ Unwrap(irm).key = last.key
           /\ irm = FindSubtree(ipre, last.key)
           /\ BranchCut(ipre, itree, last.key)
           /\ Unwrap(ipre).key = last.key =>
                 irm = ipre /\ BSTree_is_empty(itree)

\* remove_tree has returned a node below the root together with its two
\* children, and the source still holds at least two nodes
C10_Witness ==
    /\ Called("remove_tree")
    /\ HasTwoChildren(rpre, last.key) /\ HasTwoChildren(ipre, last.key)
    /\ Unwrap(rpre).key # last.key /\ Unwrap(ipre).key # last.key
    /\ Size(rrm) >= 3 /\ Size(irm) >= 3
    /\ Size(rtree) >= 2 /\ Size(itree) >= 2

\* C11: remove_tree(k) with a key that is not in the tree, the empty tree
\* included, returns an empty tree (is_empty is true on it) and leaves the
\* source tree identical in shape, keys and values.
C11_RemoveTreeMissing ==
    Called("remove_tree") =>
      /\ last.key \notin KeysOf(rpre) =>
           /\ BSTree_is_empty(rrm)
           /\ rtree = rpre
      /\ last.key \notin KeysOf(ipre) =>
           /\ BSTree_is_empty(irm)
           /\ itree = ipre

\* remove_tree has been called with a missing key whose walk passes the
\* root of a tree of at least three nodes
C11_Witness ==
    /\ Called("remove_tree")
    /\ last.key \notin KeysOf(rpre) /\ last.key \notin KeysOf(ipre)
    /\ Size(rpre) >= 3 /\ Size(ipre) >= 3
    /\ WalkEnd(rpre, last.key, 0) # Unwrap(rpre).key
    /\ WalkEnd(ipre, last.key, 0) # Unwrap(ipre).key
    /\ BSTree_is_empty(rrm) /\ BSTree_is_empty(irm)

MaxOf(S) == CHOOSE m \in S : \A x \in S : m >= x

\* the pair of the smallest stored key above q, None if there is none
LeastAbove(t, q) ==
    LET above == {k \in KeysOf(t) : k > q}
    IN  IF above = {} THEN None
        ELSE Some(<<MinKey(above), StoredValue(t, MinKey(above))>>)

\* the pair of the largest stored key below q, None if there is none
GreatestBelow(t, q) ==
    LET below == {k \in KeysOf(t) : k < q}
    IN  IF below = {} THEN None
        ELSE Some(<<MaxOf(below), StoredValue(t, MaxOf(below))>>)

\* C12: for every reachable tree and every query key, stored or not,
\* successor returns the pair of the smallest stored key strictly greater
\* than the query, None exactly when no stored key exceeds it (so for the
\* maximum key and for the empty tree), and never the queried key itself.
C12_Successor ==
    \A q \in QueryKeys :
       /\ RecBSTree_successor(rtree, q) = LeastAbove(rtree, q)
       /\ IterBSTree_successor(itree, q) = LeastAbove(itree, q)
       /\ RecBSTree_successor(rrm, q) = LeastAbove(rrm, q)
       /\ IterBSTree_successor(irm, q) = LeastAbove(irm, q)
       /\ RecBSTree_successor(rtree, q) # None =>
             Unwrap(RecBSTree_successor(rtree, q))[1] # q
       /\ IterBSTree_successor(itree, q) # None =>
             Unwrap(IterBSTree_successor(itree, q))[1] # q
       /\ (RecBSTree_successor(rtree, q) = None)
             <=> (\A k \in KeysOf(rtree) : k <= q)
       /\ (IterBSTree_successor(itree, q) = None)
             <=> (\A k \in KeysOf(itree) : k <= q)

\* a tree of at least four nodes in which a missing key lies between two
\* stored ones; successor answers for it, answers a stored key with a key
\* that is not its right child, and answers None for the maximum
C12_Witness ==
    /\ Size(rtree) >= 4 /\ Size(itree) >= 4
    /\ \E q \in Keys \ KeysOf(rtree) :
          /\ RecBSTree_successor(rtree, q) # None
          /\ IterBSTree_successor(itree, q) # None
          /\ RecBSTree_predecessor(rtree, q) # None
    /\ \E q \in KeysOf(rtree) :
          /\ RecBSTree_successor(rtree, q) # None
          /\ NodeOf(rtree, q).right = None
          /\ IterBSTree_successor(itree, q) = RecBSTree_successor(rtree, q)
    /\ RecBSTree_successor(rtree, MaxOf(KeysOf(rtree))) = None
    /\ IterBSTree_successor(itree, MaxOf(KeysOf(itree))) = None

\* C13: for every reachable tree and every query key, stored or not,
\* predecessor returns the pair of the largest stored key strictly less
\* than the query, None exactly when no stored key is below it (so for the
\* minimum key and for the empty tree), and never the queried key itself.
C13_Predecessor ==
    \A q \in QueryKeys :
       /\ RecBSTree_predecessor(rtree, q) = GreatestBelow(rtree, q)
       /\ IterBSTree_predecessor(itree, q) = GreatestBelow(itree, q)
       /\ RecBSTree_predecessor(rrm, q) = GreatestBelow(rrm, q)
       /\ IterBSTree_predecessor(irm, q) = GreatestBelow(irm, q)
       /\ RecBSTree_predecessor(rtree, q) # None =>
             Unwrap(RecBSTree_predecessor(rtree, q))[1] # q
       /\ IterBSTree_predecessor(itree, q) # None =>
             Unwrap(IterBSTree_predecessor(itree, q))[1] # q
       /\ (RecBSTree_predecessor(rtree, q) = None)
             <=> (\A k \in KeysOf(rtree) : k >= q)
       /\ (IterBSTree_predecessor(itree, q) = None)
             <=> (\A k \in KeysOf(itree) : k >= q)

\* a tree of at least four nodes in which a missing key lies between two
\* stored ones; predecessor answers for it, answers a stored key with a key
\* that is not its left child, and answers None for the minimum
C13_Witness ==
    /\ Size(rtree) >= 4 /\ Size(itree) >= 4
    /\ \E q \in Keys \ KeysOf(rtree) :
          /\ RecBSTree_predecessor(rtree, q) # None
          /\ IterBSTree_predecessor(itree, q) # None
          /\ RecBSTree_successor(rtree, q) # None
    /\ \E q \in KeysOf(rtree) :
          /\ RecBSTree_predecessor(rtree, q) # None
          /\ NodeOf(rtree, q).left = None
          /\ IterBSTree_predecessor(itree, q) = RecBSTree_predecessor(rtree, q)
    /\ RecBSTree_predecessor(rtree, MinKey(KeysOf(rtree))) = None
    /\ IterBSTree_predecessor(itree, MinKey(KeysOf(itree))) = None

\* the pair of the smallest / largest stored key, None for the empty tree
SmallestPair(t) ==
    IF KeysOf(t) = {} THEN None
    ELSE Some(<<MinKey(KeysOf(t)), StoredValue(t, MinKey(KeysOf(t)))>>)

LargestPair(t) ==
    IF KeysOf(t) = {} THEN None
    ELSE Some(<<MaxOf(KeysOf(t)), StoredValue(t, MaxOf(KeysOf(t)))>>)

\* the key at the end of the descent from the root along one side only
RECURSIVE SpineEnd(_, _)
SpineEnd(t, side) ==
    LET n == Unwrap(t)
        next == IF side = "L" THEN n.left ELSE n.right
    IN  IF next = None THEN n.key ELSE SpineEnd(next, side)

MinMaxOf(t, min, max) ==
    /\ min = SmallestPair(t)
    /\ max = LargestPair(t)
    /\ (min = None) <=> BSTree_is_empty(t)
    /\ (max = None) <=> BSTree_is_empty(t)
    /\ ~BSTree_is_empty(t) =>
          /\ Unwrap(min)[1] = SpineEnd(t, "L")
          /\ Unwrap(max)[1] = SpineEnd(t, "R")

\* C14: for every reachable tree min_pair returns the pair of the smallest
\* stored key and max_pair the pair of the largest, the ends of the
\* left-only and right-only descent from the root; each returns None if and
\* only if the tree is empty.
C14_MinMax ==
    /\ MinMaxOf(rtree, RecBSTree_min_pair(rtree), RecBSTree_max_pair(rtree))
    /\ MinMaxOf(itree, IterBSTree_min_pair(itree), IterBSTree_max_pair(itree))
    /\ MinMaxOf(rrm, RecBSTree_min_pair(rrm), RecBSTree_max_pair(rrm))
    /\ MinMaxOf(irm, IterBSTree_min_pair(irm), IterBSTree_max_pair(irm))

\* a tree of at least four nodes whose root is neither the minimum nor the
\* maximum and whose minimum and maximum lie two or more levels down
C14_Witness ==
    /\ Size(rtree) >= 4 /\ Size(itree) >= 4
    /\ FactOf(rtree, Unwrap(RecBSTree_min_pair(rtree))[1]).parent
          \notin {0, Unwrap(rtree).key}
    /\ FactOf(itree, Unwrap(IterBSTree_max_pair(itree))[1]).parent
          \notin {0, Unwrap(itree).key}

\* the answers of the lookup family for key q on tree t, against the value
\* v the tree should hold for q (0: q is not stored)
LookupsAre(q, v, get_pair, get, contains) ==
    /\ (v # 0) => /\ get_pair = Some(<<q, v>>)
                  /\ get = Some(v)
                  /\ contains
    /\ (v = 0) => /\ get_pair = None
                  /\ get = None
                  /\ ~contains
    /\ (get_pair # None) <=> (get # None)
    /\ contains <=> (get # None)

\* the value the reference map holds for q, 0 outside the storable keys
RefValue(q) == IF q \in Keys THEN ref[q] ELSE 0

\* C15: for every reachable tree and every key, get_pair is Some((k, v))
\* iff get is Some(v) iff the tree stores k with the value v inserted last
\* and not removed since; contains is true iff get is not None; get_or
\* returns v for a stored key and the default otherwise; a missing key gives
\* None.
C15_Lookups ==
    \A q \in QueryKeys :
       /\ LookupsAre(q, RefValue(q), RecBSTree_get_pair(rtree, q),
                     RecBSTree_get(rtree, q), RecBSTree_contains(rtree, q))
       /\ LookupsAre(q, RefValue(q), IterBSTree_get_pair(itree, q),
                     IterBSTree_get(itree, q), IterBSTree_contains(itree, q))
       /\ LookupsAre(q, StoredValue(rrm, q), RecBSTree_get_pair(rrm, q),
                     RecBSTree_get(rrm, q), RecBSTree_contains(rrm, q))
       /\ LookupsAre(q, StoredValue(irm, q), IterBSTree_get_pair(irm, q),
                     IterBSTree_get(irm, q), IterBSTree_contains(irm, q))
       /\ \A d \in Values :
             /\ RecBSTree_get_or(rtree, q, d)
                   = (IF RefValue(q) # 0 THEN RefValue(q) ELSE d)
             /\ IterBSTree_get_or(itree, q, d)
                   = (IF RefValue(q) # 0 THEN RefValue(q) ELSE d)

\* a stored key two levels below the root was last inserted over an older
\* value, and another key is missing
C15_Witness ==
    /\ Called("insert")
    /\ last.key \in KeysOf(rpre) /\ last.key \in KeysOf(ipre)
    /\ StoredValue(rpre, last.key) # last.value
    /\ FactOf(rtree, last.key).parent \notin {0, Unwrap(rtree).key}
    /\ FactOf(itree, last.key).parent \notin {0, Unwrap(itree).key}
    /\ RecBSTree_get(rtree, last.key) = Some(last.value)
    /\ IterBSTree_get(itree, last.key) = Some(last.value)
    /\ \E q \in Keys : ~RecBSTree_contains(rtree, q)
                       /\ ~IterBSTree_contains(itree, q)

\* the preorder of a tree as a sequence of pairs: the node, then the
\* preorder of its left subtree, then the preorder of its right subtree
RECURSIVE Preorder(_)
Preorder(t) ==
    IF t = None THEN <<>>
    ELSE LET n == Unwrap(t)
         IN  <<(<<n.key, n.value>>)>> \o Preorder(n.left) \o Preorder(n.right)

\* the postorder: left subtree, right subtree, then the node
RECURSIVE Postorder(_)
Postorder(t) ==
    IF t = None THEN <<>>
    ELSE LET n == Unwrap(t)
         IN  Postorder(n.left) \o Postorder(n.right) \o <<(<<n.key, n.value>>)>>

\* the position of key q in a sequence of pairs, 0 if it does not occur
PositionOf(pairs, q) ==
    LET at == {a \in 1..Len(pairs) : pairs[a][1] = q}
    IN  IF at = {} THEN 0 ELSE CHOOSE a \in at : TRUE

\* every node of t occurs exactly once in pairs
EachNodeOnce(t, pairs) ==
    /\ Len(pairs) = Size(t)
    /\ \A q \in KeysOf(t) : Cardinality({a \in 1..Len(pairs) : pairs[a][1] = q}) = 1

\* a tree with a node that has two children, the left one having a right
\* child and the right one a left child
Bushy(t) ==
    \E q \in KeysOf(t) :
       /\ HasTwoChildren(t, q)
       /\ NodeOf(t, ChildKey(t, q, "L")).right # None
       /\ NodeOf(t, ChildKey(t, q, "R")).left # None

\* C16: for every reachable tree preorder_iter yields the root's pair, then
\* the complete preorder of the left subtree, then the complete preorder of
\* the right subtree; the explicit-stack loop of the iterative engine yields
\* exactly this recursively defined sequence.
C16_Preorder ==
    /\ RecBSTree_preorder_iter(rtree) = Preorder(rtree)
    /\ IterBSTree_preorder_iter(itree) = Preorder(itree)
    /\ RecBSTree_preorder_iter(rrm) = Preorder(rrm)
    /\ IterBSTree_preorder_iter(irm) = Preorder(irm)
    /\ itree # None =>
          LET n == Unwrap(itree)
          IN  IterBSTree_preorder_iter(itree)
                 = <<(<<n.key, n.value>>)>>
                      \o IterBSTree_preorder_iter(n.left)
                      \o IterBSTree_preorder_iter(n.right)

C16_Witness ==
    /\ Bushy(itree) /\ Bushy(rtree)
    /\ Len(IterBSTree_preorder_iter(itree)) = MaxKey
    /\ Len(RecBSTree_preorder_iter(rtree)) = MaxKey

\* C17: for every reachable tree postorder_iter yields the complete
\* postorder of the left subtree, then of the right subtree, then the node;
\* the explicit-stack loop, which takes a right subtree as finished when the
\* top node's right child equals the previously emitted node by key, yields
\* exactly this sequence: no node before its right subtree, none twice.
C17_Postorder ==
    /\ RecBSTree_postorder_iter(rtree) = Postorder(rtree)
    /\ IterBSTree_postorder_iter(itree) = Postorder(itree)
    /\ RecBSTree_postorder_iter(rrm) = Postorder(rrm)
    /\ IterBSTree_postorder_iter(irm) = Postorder(irm)
    /\ LET out == IterBSTree_postorder_iter(itree)
       IN  /\ EachNodeOnce(itree, out)
           /\ \A q \in KeysOf(itree) :
                 \A x \in KeysOf(NodeOf(itree, q).right)
                          \cup KeysOf(NodeOf(itree, q).left) :
                    PositionOf(out, x) < PositionOf(out, q)

\* a full traversal of a tree in which some node has a left child and a
\* right child carrying the same value, the right one with children of its
\* own
C17_Witness ==
    /\ Len(IterBSTree_postorder_iter(itree)) = MaxKey
    /\ Len(RecBSTree_postorder_iter(rtree)) = MaxKey
    /\ \E q \in KeysOf(itree) :
          /\ HasTwoChildren(itree, q)
          /\ NodeOf(itree, ChildKey(itree, q, "L")).value
                = NodeOf(itree, ChildKey(itree, q, "R")).value
          /\ NodeOf(itree, ChildKey(itree, q, "R")).left # None

\* the depth of key q in tree t, the root being at depth 0
RECURSIVE DepthOf(_, _)
DepthOf(t, q) ==
    LET n == Unwrap(t)
    IN  IF n.key = q THEN 0
        ELSE IF q \in KeysOf(n.left) THEN 1 + DepthOf(n.left, q)
        ELSE 1 + DepthOf(n.right, q)

\* pairs lists the nodes of t breadth first: root first, depth never
\* decreasing, ascending keys within one depth, each node once with its
\* stored value
BreadthFirst(t, pairs) ==
    /\ EachNodeOnce(t, pairs)
    /\ t # None => pairs[1] = <<Unwrap(t).key, Unwrap(t).value>>
    /\ \A a \in 1..Len(pairs) : pairs[a][2] = StoredValue(t, pairs[a][1])
    /\ \A a, b \in 1..Len(pairs) :
          a < b =>
             /\ DepthOf(t, pairs[a][1]) <= DepthOf(t, pairs[b][1])
             /\ DepthOf(t, pairs[a][1]) = DepthOf(t, pairs[b][1])
                   => pairs[a][1] < pairs[b][1]

\* C18: for every reachable tree levelorder_iter yields the root first and
\* then the nodes breadth first: depth never decreases along the sequence
\* and within one depth the keys ascend (left to right).
C18_Levelorder ==
    /\ BreadthFirst(rtree, RecBSTree_levelorder_iter(rtree))
    /\ BreadthFirst(itree, IterBSTree_levelorder_iter(itree))
    /\ BreadthFirst(rrm, RecBSTree_levelorder_iter(rrm))
    /\ BreadthFirst(irm, IterBSTree_levelorder_iter(irm))

\* a tree of three levels whose deepest level holds a child of the root's
\* left child and a child of the root's right child
C18_Witness ==
    /\ Bushy(rtree) /\ Bushy(itree)
    /\ HasTwoChildren(rtree, Unwrap(rtree).key)
    /\ HasTwoChildren(itree, Unwrap(itree).key)
    /\ NodeOf(rtree, ChildKey(rtree, Unwrap(rtree).key, "L")).right # None
    /\ NodeOf(rtree, ChildKey(rtree, Unwrap(rtree).key, "R")).left # None
    /\ Len(RecBSTree_levelorder_iter(rtree)) = MaxKey
    /\ Len(IterBSTree_levelorder_iter(itree)) = MaxKey

\* what a call of the traversal named kind returns on tree r (recursive
\* engine) and on tree i (explicit-stack engine) right now
FreshRec(kind, r) ==
    CASE kind = "preorder_iter" -> RecBSTree_preorder_iter(r)
      [] kind = "inorder_iter" -> RecBSTree_inorder_iter(r)
      [] kind = "postorder_iter" -> RecBSTree_postorder_iter(r)
      [] kind = "levelorder_iter" -> RecBSTree_levelorder_iter(r)

FreshIter(kind, i) ==
    CASE kind = "preorder_iter" -> IterBSTree_preorder_iter(i)
      [] kind = "inorder_iter" -> IterBSTree_inorder_iter(i)
      [] kind = "postorder_iter" -> IterBSTree_postorder_iter(i)
      [] kind = "levelorder_iter" -> IterBSTree_levelorder_iter(i)

\* the live iterator it, having yielded out and answered ret last, is a
\* traversal full of tree t: what it yielded followed by what it still holds
\* is full, full lists every node of t once, and once it has answered None
\* it holds nothing
IterOver(t, full, it, out, ret, nones) ==
    /\ it # None
    /\ out \o Unwrap(it).data = full
    /\ EachNodeOnce(t, full)
    /\ Len(out) <= Size(t)
    /\ ret # None => out # <<>> /\ ret = Some(out[Len(out)])
    /\ nones > 0 => /\ ret = None
                    /\ Unwrap(it).data = <<>>
                    /\ out = full
                    /\ TraverseIter_next(Unwrap(it)) = <<Unwrap(it), None>>

\* C19: creating and consuming a traversal sequence, fully or partly, never
\* changes the tree; the sequence is finite and holds the complete traversal
\* of the tree as it was at the call, which is also what a second call made
\* now returns; next() on an exhausted sequence keeps returning None.
C19_IterFrame ==
    last.op \in IterKinds =>
       /\ rtree = rpre /\ itree = ipre
       /\ RecBSTree_inorder_iter(rtree) = SortedListing(ref)
       /\ IterBSTree_inorder_iter(itree) = SortedListing(ref)
       /\ IterOver(rtree, FreshRec(last.op, rtree), riter, taken.rout,
                   taken.rret, taken.nones)
       /\ IterOver(itree, FreshIter(last.op, itree), iiter, taken.iout,
                   taken.iret, taken.nones)
       /\ FreshRec(last.op, rpre) = FreshRec(last.op, rtree)
       /\ FreshIter(last.op, ipre) = FreshIter(last.op, itree)

\* a postorder sequence over a full tree has been consumed to its end, pair
\* by pair, and has then answered None as often as a run records
C19_Witness ==
    /\ last.op = "postorder_iter"
    /\ Size(rtree) = MaxKey /\ Size(itree) = MaxKey
    /\ Bushy(rtree) /\ Bushy(itree)
    /\ taken.nones = MaxNones
    /\ Len(taken.rout) = MaxKey /\ Len(taken.iout) = MaxKey
    /\ riter # None /\ iiter # None

\* keys is a complete listing of the keys of t, so the call that produced it
\* ran to its end
ListsKeys(t, keys) ==
    /\ keys # Panic
    /\ Len(keys) = Size(t)
    /\ {keys[a] : a \in 1..Len(keys)} = KeysOf(t)

\* an Option of a pair of t
PairOrNone(t, p) ==
    \/ p = None
    \/ /\ Len(p) = 1
       /\ Unwrap(p)[1] \in KeysOf(t)
       /\ Unwrap(p)[2] = StoredValue(t, Unwrap(p)[1])

\* every call of the explicit-stack engine on tree t and key q ends with an
\* answer, and a key that is not stored is answered by None or by the tree
\* as it is
IterCallsEnd(t, q) ==
    /\ PairOrNone(t, IterBSTree_get_pair(t, q))
    /\ PairOrNone(t, IterBSTree_successor(t, q))
    /\ PairOrNone(t, IterBSTree_predecessor(t, q))
    /\ KeysOf(IterBSTree_delete(t, q)) = KeysOf(t) \ {q}
    /\ KeysOf(IterBSTree_delete_tree(t, q)) = KeysOf(t) \ SubtreeKeys(t, q)
    /\ KeysOf(IterBSTree_remove_tree(t, q)[2]) = SubtreeKeys(t, q)
    /\ q \notin KeysOf(t) =>
          /\ IterBSTree_get_pair(t, q) = None
          /\ IterBSTree_get(t, q) = None
          /\ ~IterBSTree_contains(t, q)
          /\ IterBSTree_delete(t, q) = t
          /\ IterBSTree_delete_tree(t, q) = t
          /\ IterBSTree_remove_tree(t, q) = <<t, BSTree_new>>

RecCallsEnd(t, q) ==
    /\ PairOrNone(t, RecBSTree_get_pair(t, q))
    /\ PairOrNone(t, RecBSTree_successor(t, q))
    /\ PairOrNone(t, RecBSTree_predecessor(t, q))
    /\ KeysOf(RecBSTree_delete(t, q)) = KeysOf(t) \ {q}
    /\ KeysOf(RecBSTree_delete_tree(t, q)) = KeysOf(t) \ SubtreeKeys(t, q)
    /\ KeysOf(RecBSTree_remove_tree(t, q)[2]) = SubtreeKeys(t, q)
    /\ q \notin KeysOf(t) =>
          /\ RecBSTree_get_pair(t, q) = None
          /\ RecBSTree_get(t, q) = None
          /\ ~RecBSTree_contains(t, q)
          /\ RecBSTree_delete(t, q) = t
          /\ RecBSTree_delete_tree(t, q) = t
          /\ RecBSTree_remove_tree(t, q) = <<t, BSTree_new>>

IterNoPanic(t) ==
    /\ IterBSTree_post_order(t) # Panic
    /\ ListsKeys(t, IterBSTree_prev_order(t))
    /\ ListsKeys(t, IterBSTree_in_order(t))
    /\ ListsKeys(t, IterBSTree_post_order(t))
    /\ ListsKeys(t, IterBSTree_level_order(t))
    /\ Len(IterBSTree_postorder_iter(t)) = Size(t)
    /\ PairOrNone(t, IterBSTree_min_pair(t))
    /\ PairOrNone(t, IterBSTree_max_pair(t))
    /\ \A q \in QueryKeys : IterCallsEnd(t, q)
    /\ \A q \in Keys, v \in Values :
          KeysOf(IterBSTree_insert(t, q, v)) = KeysOf(t) \cup {q}
    /\ BSTree_is_empty(t) =>
          /\ IterBSTree_min_pair(t) = None
          /\ IterBSTree_max_pair(t) = None
          /\ IterBSTree_post_order(t) = <<>>
          /\ IterBSTree_prev_order(t) = <<>>
          /\ IterBSTree_in_order(t) = <<>>
          /\ IterBSTree_level_order(t) = <<>>

RecNoPanic(t) ==
    /\ ListsKeys(t, RecNode_prev_order(t))
    /\ ListsKeys(t, RecNode_in_order(t))
    /\ ListsKeys(t, RecNode_post_order(t))
    /\ ListsKeys(t, RecNode_level_order(t))
    /\ PairOrNone(t, RecBSTree_min_pair(t))
    /\ PairOrNone(t, RecBSTree_max_pair(t))
    /\ \A q \in QueryKeys : RecCallsEnd(t, q)
    /\ \A q \in Keys, v \in Values :
          KeysOf(RecBSTree_insert(t, q, v)) = KeysOf(t) \cup {q}
    /\ BSTree_is_empty(t) =>
          /\ RecBSTree_min_pair(t) = None
          /\ RecBSTree_max_pair(t) = None
          /\ RecNode_post_order(t) = <<>>

\* C20: in every state reachable from new() by any sequence of public
\* calls no call panics: post_order of the explicit-stack engine never
\* unwraps the top of an empty stack, every traversal and every call for
\* every key ends with an answer, and a key that is not stored or an empty
\* tree is answered by None or an empty tree.
C20_NoPanic ==
    /\ IterNoPanic(itree)
    /\ IterNoPanic(irm)
    /\ RecNoPanic(rtree)
    /\ RecNoPanic(rrm)

\* the empty tree reached again by deleting the last key: post_order has
\* run on the tree before, which was not empty, and on the empty tree
C20_Witness ==
    /\ Called("delete")
    /\ BSTree_is_empty(itree) /\ BSTree_is_empty(rtree)
    /\ ~BSTree_is_empty(ipre)
    /\ IterBSTree_post_order(itree) = <<>>
    /\ IterBSTree_post_order(ipre) # <<>>

\* the set of pairs of a sequence
PairsOf(pairs) == {pairs[a] : a \in 1..Len(pairs)}

\* the four sequences materialized from tree t: each has one pair per node,
\* each pair is a key with the value stored for it, and the four hold the
\* same pairs
Materialized(t, pre, ino, post, lev) ==
    /\ \A s \in {pre, ino, post, lev} :
          /\ Len(s) = Size(t)
          /\ EachNodeOnce(t, s)
          /\ \A a \in 1..Len(s) :
                /\ s[a][1] \in KeysOf(t)
                /\ s[a][2] = StoredValue(t, s[a][1])
    /\ PairsOf(pre) = PairsOf(ino)
    /\ PairsOf(ino) = PairsOf(post)
    /\ PairsOf(post) = PairsOf(lev)
    /\ PairsOf(ino) = {<<q, StoredValue(t, q)>> : q \in KeysOf(t)}

\* C22: on every reachable tree the re-lookup step of the four *_iter calls
\* drops and duplicates nothing: each sequence has exactly one pair per node
\* (as long as the key traversal it was built from), the four sequences are
\* permutations of one another, and each pair is the key with the value
\* stored for it now.
C22_Materialization ==
    /\ Materialized(rtree, RecBSTree_preorder_iter(rtree),
                    RecBSTree_inorder_iter(rtree),
                    RecBSTree_postorder_iter(rtree),
                    RecBSTree_levelorder_iter(rtree))
    /\ Materialized(itree, IterBSTree_preorder_iter(itree),
                    IterBSTree_inorder_iter(itree),
                    IterBSTree_postorder_iter(itree),
                    IterBSTree_levelorder_iter(itree))
    /\ Materialized(rrm, RecBSTree_preorder_iter(rrm),
                    RecBSTree_inorder_iter(rrm),
                    RecBSTree_postorder_iter(rrm),
                    RecBSTree_levelorder_iter(rrm))
    /\ Materialized(irm, IterBSTree_preorder_iter(irm),
                    IterBSTree_inorder_iter(irm),
                    IterBSTree_postorder_iter(irm),
                    IterBSTree_levelorder_iter(irm))
    /\ Len(IterBSTree_preorder_iter(itree)) = Len(IterBSTree_prev_order(itree))
    /\ Len(IterBSTree_inorder_iter(itree)) = Len(IterBSTree_in_order(itree))
    /\ Len(IterBSTree_postorder_iter(itree)) = Len(IterBSTree_post_order(itree))
    /\ Len(IterBSTree_levelorder_iter(itree))
          = Len(IterBSTree_level_order(itree))
    /\ Len(RecBSTree_preorder_iter(rtree)) = Len(RecNode_prev_order(rtree))
    /\ Len(RecBSTree_inorder_iter(rtree)) = Len(RecNode_in_order(rtree))
    /\ Len(RecBSTree_postorder_iter(rtree)) = Len(RecNode_post_order(rtree))
    /\ Len(RecBSTree_levelorder_iter(rtree)) = Len(RecNode_level_order(rtree))

\* a full tree of several levels holding both values, whose four sequences
\* are four different orders, right after one value was overwritten
C22_Witness ==
    /\ Called("insert") /\ last.key \in KeysOf(ipre)
    /\ StoredValue(ipre, last.key) # last.value
    /\ Size(itree) = MaxKey /\ Size(rtree) = MaxKey
    /\ Bushy(itree) /\ Bushy(rtree)
    /\ {StoredValue(itree, q) : q \in KeysOf(itree)} = Values
    /\ Cardinality({IterBSTree_preorder_iter(itree),
                    IterBSTree_inorder_iter(itree),
                    IterBSTree_postorder_iter(itree),
                    IterBSTree_levelorder_iter(itree)}) = 4

\* tree t takes the new key k as a node below the root's children
LandsDeep(t, k) ==
    /\ k \in Keys \ KeysOf(t)
    /\ Size(t) >= 3
    /\ FactOf(RecBSTree_insert(t, k, 1), k).parent \notin {0, Unwrap(t).key}

\* C23: inserting a key k that is not in the tree and then calling
\* delete(k) restores the tree exactly (shape, keys and values), for every
\* reachable tree and in both engines.
C23_InsertDelete ==
    \A k \in Keys, v \in Values :
       /\ k \notin KeysOf(rtree) =>
             RecBSTree_delete(RecBSTree_insert(rtree, k, v), k) = rtree
       /\ k \notin KeysOf(itree) =>
             IterBSTree_delete(IterBSTree_insert(itree, k, v), k) = itree
       /\ k \notin KeysOf(rrm) =>
             RecBSTree_delete(RecBSTree_insert(rrm, k, v), k) = rrm
       /\ k \notin KeysOf(irm) =>
             IterBSTree_delete(IterBSTree_insert(irm, k, v), k) = irm

\* the last two calls: a delete of k has just undone an insert of k into a
\* tree that takes k below the root's children
C23_Witness ==
    /\ Called("delete")
    /\ last.key \in KeysOf(rpre) /\ last.key \in KeysOf(ipre)
    /\ LandsDeep(rtree, last.key) /\ LandsDeep(itree, last.key)
    /\ \E v \in Values :
          /\ rpre = RecBSTree_insert(rtree, last.key, v)
          /\ ipre = IterBSTree_insert(itree, last.key, v)
          /\ RecBSTree_delete(rpre, last.key) = rtree
          /\ IterBSTree_delete(ipre, last.key) = itree

\* the number of levels of a tree
RECURSIVE Height(_)
Height(t) ==
    IF t = None THEN 0
    ELSE LET l == Height(Unwrap(t).left)
             r == Height(Unwrap(t).right)
         IN  1 + (IF l > r THEN l ELSE r)

WalkCalls ==
    {"insert", "delete", "delete_tree", "remove_tree", "remove_min",
     "get_pair", "max_pair", "min_pair", "successor", "predecessor"}

TraversalCalls == {"prev_order", "in_order", "post_order", "level_order"}

\* the tree the running call was started on
StartTree ==
    IF run.op = "remove_min" THEN NodeOf(ipre, run.key).right ELSE ipre

\* what the running call has to return, and the tree it has to leave, by
\* the engine's calls taken as a whole
RunAnswer ==
    CASE run.op = "insert" -> IterBSTree_insert(ipre, run.key, run.value)
      [] run.op = "delete" -> IterBSTree_delete(ipre, run.key)
      [] run.op = "delete_tree" -> IterBSTree_delete_tree(ipre, run.key)
      [] run.op = "remove_tree" -> IterBSTree_remove_tree(ipre, run.key)
      [] run.op = "remove_min" -> IterNode_remove_min(Unwrap(StartTree))
      [] run.op = "get_pair" -> IterBSTree_get_pair(ipre, run.key)
      [] run.op = "max_pair" -> IterBSTree_max_pair(ipre)
      [] run.op = "min_pair" -> IterBSTree_min_pair(ipre)
      [] run.op = "successor" -> IterBSTree_successor(ipre, run.key)
      [] run.op = "predecessor" -> IterBSTree_predecessor(ipre, run.key)
      [] run.op = "prev_order" -> IterBSTree_prev_order(ipre)
      [] run.op = "in_order" -> IterBSTree_in_order(ipre)
      [] run.op = "post_order" -> IterBSTree_post_order(ipre)
      [] run.op = "level_order" -> IterBSTree_level_order(ipre)

RunTree ==
    CASE run.op \in {"insert", "delete", "delete_tree"} -> RunAnswer
      [] run.op = "remove_tree" -> RunAnswer[1]
      [] run.op = "remove_min" -> IF Unwrap(StartTree).left = None
                                  THEN StartTree ELSE RunAnswer[1]
      [] OTHER -> StartTree

\* a walk: every iteration made so far has moved the cursor one level down,
\* but for the last one, which has returned or left the cursor empty; the
\* cursor is never below the tree, and the call ends with its answer
WalkEnds ==
    /\ Len(run.cur) <= run.steps
    /\ run.steps <= Len(run.cur) + 1
    /\ run.steps = Len(run.cur) + 1 => run.done \/ ~run.some
    /\ Len(run.cur) <= Height(StartTree)
    /\ run.steps <= Height(StartTree) + 1
    /\ run.some => LinkAt(run.tree, run.cur) # None
    /\ ~run.done /\ (run.some \/ run.steps = Len(run.cur)) =>
          run.tree = StartTree
    /\ run.done => /\ run.ret = RunAnswer
                   /\ run.tree = RunTree

\* a traversal: no node is pushed twice, and the loop ends with every node
\* pushed once, nothing left on the stack or queue, and its answer
TraversalEnds ==
    /\ \A a, b \in 1..Len(run.pushed) :
          a # b => run.pushed[a] # run.pushed[b]
    /\ \A a \in 1..Len(run.pushed) : run.pushed[a] \in KeysOf(ipre)
    /\ \A a \in 1..Len(run.stack) : run.stack[a].key \in KeysOf(ipre)
    /\ Len(run.res) <= Len(run.pushed)
    /\ run.steps <= (IF run.op = "post_order" THEN 2 ELSE 1) * Size(ipre)
    /\ run.op = "post_order" => run.ret # Panic
    /\ run.tree = ipre
    /\ run.done => /\ Len(run.pushed) = Size(ipre)
                   /\ {run.pushed[a] : a \in 1..Len(run.pushed)} = KeysOf(ipre)
                   /\ run.stack = <<>>
                   /\ run.link = None
                   /\ run.res = run.ret
                   /\ run.ret = RunAnswer

\* C21: every call ends on every reachable tree: each iteration of a walk
\* loop of the explicit-stack engine (insert, delete, delete_tree,
\* remove_tree, get_pair, min_pair, max_pair, successor, predecessor,
\* remove_min) returns, exits or moves the cursor exactly one level down,
\* and each traversal loop pushes every node exactly once and ends with an
\* empty stack or queue; no run comes near the cap on iterations.
C21_Terminates ==
    /\ run.steps < MaxSteps
    /\ itree = ipre \/ run = Idle
    /\ run.op \in WalkCalls => WalkEnds
    /\ run.op \in TraversalCalls => TraversalEnds

\* a delete has ended after two loop iterations, the second one cutting a
\* node with two children out of a full tree
C21_Witness ==
    /\ run.op = "delete" /\ run.done
    /\ run.steps >= 2
    /\ Size(ipre) = MaxKey
    /\ HasTwoChildren(ipre, run.key)
    /\ run.tree # ipre
    /\ run.tree = IterBSTree_delete(ipre, run.key)

====
